---- MODULE Spec2Model ----
(***************************************************************************)
(* Ranking snapshot and change detection of allora-checker-bot.            *)
(*                                                                         *)
(* Numbers: a float64 is modelled as an integer (a fixed-point value);     *)
(* the two special values a weight text can parse to, +Inf and NaN, are    *)
(* the sentinels PosInf and NaN with the IEEE rules for > and -.           *)
(* Display-only fields (names, badge, timestamp) are left out.             *)
(***************************************************************************)
EXTENDS Integers, Sequences, FiniteSets, TLC

VARIABLES
    wIn,        \* processWeights: the []InfererWeight handed in
    wOut,       \* processWeights: the []WeightRank returned
    wPerm,      \* for each output position, the input index it came from
    wDone,      \* processWeights has run on wIn
    wEnrich,    \* updateCompetitionWeight: the worker looked up and the competition after
    dCur,       \* change detector: the current *AlloraUser
    dPrev,      \* change detector: the previous *UserHistory
    dOut,       \* RankChangeInfo returned by calculateChanges
    dInline,    \* RankChangeInfo built inline by CheckRankChanges
    dDone,      \* the detector has run on (dCur, dPrev)
    program,    \* the program that runs: "service" (cmd/bot) or "main" (main.go)
    upstream,   \* the user record the API serves for each address
    history,    \* the history file that program keeps for each address
    lastOp,     \* the handler that ran last ("none" before any, or after the API moved)
    opIn,       \* the failures that handler met: fetches, weight fetches, writes, send
    opUsers,    \* its users slice, as handed to the formatter
    opChanges,  \* its changes map
    notified,   \* it built a message and handed it to bot.Send
    delivered,  \* bot.Send returned no error
    store,      \* HistoryService called on its own: the last save, the last call, its result
    pass,       \* CheckRankChanges turn by turn: the next turn, the addresses visited
    report,     \* the alert of checkRankChanges of main.go: its header, its deltas
    cmd,        \* handleRankCommand of main.go: its goroutines, its channels
    loop,       \* the event loop: the events waiting, the handlers running
    boot        \* the bot initialization: the attempts made, what it returned

rankVars == <<wIn, wOut, wPerm, wDone, wEnrich>>

sideVars == <<store, pass>>

sysVars == <<cmd, loop, boot>>

detectVars == <<dCur, dPrev, dOut, dInline, dDone>>

opVars == <<lastOp, opIn, opUsers, opChanges, notified, delivered, report>>

botVars == <<program, upstream, history, lastOp, opIn, opUsers, opChanges, notified,
            delivered, store, pass, report, cmd, loop, boot>>

vars == <<wIn, wOut, wPerm, wDone, wEnrich, dCur, dPrev, dOut, dInline, dDone,
          program, upstream, history, lastOp, opIn, opUsers, opChanges, notified, delivered,
          store, pass, report, cmd, loop, boot>>

\* no alert built
NoReport == [header |-> "none", rows |-> <<>>]

\* no /rank command of main.go running
CmdIdle == [pc |-> "idle"]

\* the event loop not started
LoopIdle == [pc |-> "idle"]

\* the bot initialization not started
BootIdle == [pc |-> "idle"]

(***************************************************************************)
(* Bounds                                                                  *)
(***************************************************************************)
MaxWeights == 3
MaxComps == 2
\* the updates that wait in the channel of the bot
MaxPending == 2
\* the retries the bot initialization is called with
MaxRetries == 3

(***************************************************************************)
(* float64                                                                 *)
(***************************************************************************)
PosInf == 2^20
NegInf == 0 - PosInf
NaN == 0 - (2^21)

IsFinite(x) == x # PosInf /\ x # NegInf /\ x # NaN

\* a > b on float64: false as soon as one side is NaN
FGt(a, b) == a # NaN /\ b # NaN /\ a > b

\* a - b on float64
FSub(a, b) ==
    IF a = NaN \/ b = NaN THEN NaN
    ELSE IF IsFinite(a) /\ IsFinite(b) THEN a - b
    ELSE IF a = b THEN NaN
    ELSE IF IsFinite(a) THEN (IF b = PosInf THEN NegInf ELSE PosInf)
    ELSE a

\* the weight texts the upstream API is taken to send
WeightTexts == {"0.5", "0.8", "abc", "1e999", "NaN"}

\* strconv.ParseFloat(text, 64): value and error. A syntax error gives 0,
\* a range error gives +Inf, both with err; "NaN" parses without error.
ParseFloat(text) ==
    CASE text = "0.5"   -> [val |-> 5, err |-> FALSE]
      [] text = "0.8"   -> [val |-> 8, err |-> FALSE]
      [] text = "0"     -> [val |-> 0, err |-> FALSE]
      [] text = "1e999" -> [val |-> PosInf, err |-> TRUE]
      [] text = "NaN"   -> [val |-> NaN, err |-> FALSE]
      [] OTHER          -> [val |-> 0, err |-> TRUE]

(***************************************************************************)
(* AlloraService.processWeights                                            *)
(***************************************************************************)
Workers == {"w1", "w2", "w3"}

InfererWeights == [Worker : Workers, Weight : WeightTexts]

SeqsUpTo(S, n) == UNION {[1..k -> S] : k \in 0..n}

Swap(s, i, j) == [s EXCEPT ![i] = s[j], ![j] = s[i]]

\* the inner loop: j runs from its start to len(result), maxIdx moves to j
\* when result[j].Weight > result[maxIdx].Weight
RECURSIVE scanMaxSkip(_, _, _)
scanMaxSkip(result, j, maxIdx) ==
    IF j > Len(result) THEN maxIdx
    ELSE scanMaxSkip(result, j + 2,
             IF FGt(result[j].Weight, result[maxIdx].Weight) THEN j ELSE maxIdx)

RECURSIVE scanMaxLast(_, _, _)
scanMaxLast(result, j, maxIdx) ==
    IF j > Len(result) THEN maxIdx
    ELSE scanMaxLast(result, j + 1,
             IF ~FGt(result[maxIdx].Weight, result[j].Weight) THEN j ELSE maxIdx)

RECURSIVE scanMax(_, _, _)
scanMax(result, j, maxIdx) ==
    IF j > Len(result) THEN maxIdx
    ELSE scanMax(result, j + 1,
             IF FGt(result[j].Weight, result[maxIdx].Weight) THEN j ELSE maxIdx)

\* the outer loop: for i := range result, swap the maximum of i.. into i
RECURSIVE selectionSort(_, _)
selectionSort(result, i) ==
    IF i > Len(result) THEN result
    ELSE LET maxIdx == scanMax(result, i + 1, i)
         IN  selectionSort(IF maxIdx # i THEN Swap(result, i, maxIdx) ELSE result,
                           i + 1)

\* the first loop: parse each weight, the error dropped
parseWeights(weights) ==
    [i \in 1..Len(weights) |->
        [Worker |-> weights[i].Worker,
         Weight |-> ParseFloat(weights[i].Weight).val,
         Rank   |-> 0]]

processWeights(weights) ==
    LET sorted == selectionSort(parseWeights(weights), 1)
    IN  [i \in 1..Len(sorted) |-> [sorted[i] EXCEPT !.Rank = i]]

\* the same sort run on the entries tagged with their input index: the
\* input index now at each output position
sortedIndices(weights) ==
    LET tagged == [i \in 1..Len(weights) |->
                      [Weight |-> ParseFloat(weights[i].Weight).val, Idx |-> i]]
        sorted == selectionSort(tagged, 1)
    IN  [i \in 1..Len(sorted) |-> sorted[i].Idx]

(***************************************************************************)
(* Records: models.Competition, models.AlloraUser, models.CompHistory,     *)
(* models.UserHistory, models.RankChangeInfo, models.CompChangeInfo        *)
(***************************************************************************)
CompIDs == {1, 2}
Ranks == {1, 2}
PointValues == {10, 12}

\* topic_id of a competition, as served by the API
TopicOf(id) == 10 + id

Competition(id, ranking, points, weight, weightRank, total) ==
    [ID |-> id, TopicID |-> TopicOf(id), Points |-> points, Ranking |-> ranking,
     Weight |-> weight, WeightRank |-> weightRank,
     TotalWeightParticipants |-> total]

CompHistory(id, ranking, points, weight, weightRank, total) ==
    [ID |-> id, Points |-> points, Ranking |-> ranking,
     Weight |-> weight, WeightRank |-> weightRank,
     TotalWeightParticipants |-> total]

NoChange ==
    [OverallRankChanged |-> FALSE, OverallRankDiff |-> 0, PointsDiff |-> 0,
     CompChanges |-> <<>>]

\* m[k] = v on a Go map
MapPut(m, k, v) ==
    [x \in DOMAIN m \cup {k} |-> IF x = k THEN v ELSE m[x]]

(***************************************************************************)
(* HistoryService.SaveHistory, lines 160-176: AlloraUser -> UserHistory    *)
(***************************************************************************)
toCompHistory(comp) ==
    [ID |-> comp.ID, Points |-> comp.Points, Ranking |-> comp.Ranking,
     Weight |-> comp.Weight, WeightRank |-> comp.WeightRank,
     TotalWeightParticipants |-> comp.TotalWeightParticipants]

toUserHistory(userData) ==
    [TotalPoints |-> userData.TotalPoints,
     Ranking |-> userData.Ranking,
     Competitions |-> [i \in 1..Len(userData.Competitions) |->
                          toCompHistory(userData.Competitions[i])]]

(***************************************************************************)
(* TelegramService.calculateChanges                                        *)
(***************************************************************************)
\* index of the first previous standing the inner loop stops at, 0 if none
firstMatchAny(prevComps, id, j) ==
    IF j > Len(prevComps) THEN 0 ELSE j

RECURSIVE firstMatch(_, _, _)
firstMatch(prevComps, id, j) ==
    IF j > Len(prevComps) THEN 0
    ELSE IF id = prevComps[j].ID THEN j
    ELSE firstMatch(prevComps, id, j + 1)

compChangeFlipped(currentComp, prevComp) ==
    [RankChanged    |-> currentComp.Ranking # prevComp.Ranking,
     RankDiff       |-> currentComp.Ranking - prevComp.Ranking,
     PointsDiff     |-> FSub(prevComp.Points, currentComp.Points),
     WeightDiff     |-> FSub(prevComp.Weight, currentComp.Weight),
     WeightRankDiff |-> currentComp.WeightRank - prevComp.WeightRank]

\* the CompChangeInfo literal, lines 462-468
compChange(currentComp, prevComp) ==
    [RankChanged    |-> currentComp.Ranking # prevComp.Ranking,
     RankDiff       |-> prevComp.Ranking - currentComp.Ranking,
     PointsDiff     |-> FSub(currentComp.Points, prevComp.Points),
     WeightDiff     |-> FSub(currentComp.Weight, prevComp.Weight),
     WeightRankDiff |-> prevComp.WeightRank - currentComp.WeightRank]

\* the loop over current.Competitions, lines 459-472
RECURSIVE compChangesLoop(_, _, _, _)
compChangesLoop(currentComps, prevComps, i, acc) ==
    IF i > Len(currentComps) THEN acc
    ELSE LET j == firstMatch(prevComps, currentComps[i].ID, 1)
         IN  compChangesLoop(currentComps, prevComps, i + 1,
                 IF j = 0 THEN acc
                 ELSE MapPut(acc, currentComps[i].ID,
                             compChange(currentComps[i], prevComps[j])))

overallChangeFlipped(current, prev) ==
    [OverallRankChanged |-> current.Ranking # prev.Ranking,
     OverallRankDiff    |-> current.Ranking - prev.Ranking,
     PointsDiff         |-> FSub(prev.TotalPoints, current.TotalPoints)]

\* the three overall fields of the RankChangeInfo literal, lines 452-456
overallChange(current, prev) ==
    [OverallRankChanged |-> current.Ranking # prev.Ranking,
     OverallRankDiff    |-> prev.Ranking - current.Ranking,
     PointsDiff         |-> FSub(current.TotalPoints, prev.TotalPoints)]

calculateChanges(current, prev) ==
    LET o == overallChange(current, prev)
    IN  [OverallRankChanged |-> o.OverallRankChanged,
         OverallRankDiff    |-> o.OverallRankDiff,
         PointsDiff         |-> o.PointsDiff,
         CompChanges        |-> compChangesLoop(current.Competitions,
                                                prev.Competitions, 1, <<>>)]

(***************************************************************************)
(* The same comparison written out inside CheckRankChanges, lines 383-404  *)
(***************************************************************************)
RECURSIVE inlineCompLoop(_, _, _, _)
inlineCompLoop(comps, prevComps, i, acc) ==
    IF i > Len(comps) THEN acc
    ELSE LET j == firstMatch(prevComps, comps[i].ID, 1)
         IN  inlineCompLoop(comps, prevComps, i + 1,
                 IF j = 0 THEN acc
                 ELSE MapPut(acc, comps[i].ID,
                         [RankChanged    |-> prevComps[j].Ranking # comps[i].Ranking,
                          RankDiff       |-> prevComps[j].Ranking - comps[i].Ranking,
                          PointsDiff     |-> FSub(comps[i].Points, prevComps[j].Points),
                          WeightDiff     |-> FSub(comps[i].Weight, prevComps[j].Weight),
                          WeightRankDiff |-> prevComps[j].WeightRank
                                                 - comps[i].WeightRank]))

inlineChange(userData, prevHistory) ==
    [OverallRankChanged |-> prevHistory.Ranking # userData.Ranking,
     OverallRankDiff    |-> prevHistory.Ranking - userData.Ranking,
     PointsDiff         |-> FSub(userData.TotalPoints, prevHistory.TotalPoints),
     CompChanges        |-> inlineCompLoop(userData.Competitions,
                                           prevHistory.Competitions, 1, <<>>)]

(***************************************************************************)
(* The bot: configuration, the upstream API, the history files             *)
(***************************************************************************)
Addresses == {"w1", "w2"}

\* config.Allora.Address
configAddress == <<"w1", "w2">>

Topics == {TopicOf(id) : id \in CompIDs}

\* a nil pointer
Nil == [nil |-> TRUE]

\* what FetchNetworkInferences(topic) returns as inferer_weights
NetworkWeights(topic) ==
    IF topic = TopicOf(1)
    THEN <<[Worker |-> "w1", Weight |-> "0.5"], [Worker |-> "w2", Weight |-> "0.8"]>>
    ELSE <<[Worker |-> "w3", Weight |-> "abc"], [Worker |-> "w1", Weight |-> "0.8"]>>

\* a competition as the user API serves it: the weight fields are not in
\* the JSON (json:"-") and start at zero
FetchedComp(id, ranking) == Competition(id, ranking, 20, 0, 0, 0)

\* The records the API serves.  Competition ids are unique within a record.
\* For "w1" the competitions move, for "w2", which takes part in none, the
\* overall rank and the points.
UpstreamUsers(address) ==
    IF address = "w1"
    THEN [TotalPoints : {10}, Ranking : {1},
          Competitions : {<<FetchedComp(1, 1)>>, <<FetchedComp(1, 2)>>,
                          <<FetchedComp(1, 1), FetchedComp(2, 1)>>}]
    ELSE [TotalPoints : PointValues, Ranking : Ranks, Competitions : {<<>>}]

MissingFile == [kind |-> "missing"]
GarbageFile == [kind |-> "garbage"]
\* a file os.ReadFile fails on for another reason than its absence
UnreadableFile == [kind |-> "unreadable"]
JsonFile(doc) == [kind |-> "json", doc |-> doc]

(***************************************************************************)
(* HistoryService: the JSON document of a UserHistory, by its struct tags  *)
(***************************************************************************)
marshalWithoutWeights(h) ==
    [total_points |-> h.TotalPoints,
     ranking |-> h.Ranking,
     competitions |-> [i \in 1..Len(h.Competitions) |->
         [id |-> h.Competitions[i].ID,
          points |-> h.Competitions[i].Points,
          ranking |-> h.Competitions[i].Ranking,
          weight |-> 0,
          weight_rank |-> 0,
          total_weight_participants |-> 0]]]

marshalHistory(h) ==
    [total_points |-> h.TotalPoints,
     ranking |-> h.Ranking,
     competitions |-> [i \in 1..Len(h.Competitions) |->
         [id |-> h.Competitions[i].ID,
          points |-> h.Competitions[i].Points,
          ranking |-> h.Competitions[i].Ranking,
          weight |-> h.Competitions[i].Weight,
          weight_rank |-> h.Competitions[i].WeightRank,
          total_weight_participants |->
              h.Competitions[i].TotalWeightParticipants]]]

\* encoding/json refuses a float64 that is NaN or infinite
canMarshal(h) ==
    /\ IsFinite(h.TotalPoints)
    /\ \A i \in 1..Len(h.Competitions) :
           IsFinite(h.Competitions[i].Points) /\ IsFinite(h.Competitions[i].Weight)

unmarshalHistory(doc) ==
    [TotalPoints |-> doc.total_points,
     Ranking |-> doc.ranking,
     Competitions |-> [i \in 1..Len(doc.competitions) |->
         [ID |-> doc.competitions[i].id,
          Points |-> doc.competitions[i].points,
          Ranking |-> doc.competitions[i].ranking,
          Weight |-> doc.competitions[i].weight,
          WeightRank |-> doc.competitions[i].weight_rank,
          TotalWeightParticipants |->
              doc.competitions[i].total_weight_participants]]]

\* a load that takes every failure for a first run
LoadHistoryLenient(file) ==
    IF file.kind = "json" THEN [history |-> unmarshalHistory(file.doc), err |-> FALSE]
    ELSE [history |-> Nil, err |-> FALSE]

\* LoadHistory on the file of an address: (history, err)
LoadHistory(file) ==
    IF file.kind \in {"missing", "unreadable"}
    THEN IF file.kind = "missing" THEN [history |-> Nil, err |-> FALSE]
         ELSE [history |-> Nil, err |-> TRUE]
    ELSE IF file.kind = "garbage" THEN [history |-> Nil, err |-> TRUE]
    ELSE [history |-> unmarshalHistory(file.doc), err |-> FALSE]

WriteOutcomes == {"ok", "open_error", "write_error"}

\* a save that keeps the competitions of the earlier snapshot that the new
\* record does not hold
SaveHistoryMerging(file, userData, outcome) ==
    LET h == toUserHistory(userData)
        old == IF file.kind = "json" THEN unmarshalHistory(file.doc).Competitions
               ELSE <<>>
        kept == SelectSeq(old, LAMBDA c :
                    \A i \in 1..Len(h.Competitions) : h.Competitions[i].ID # c.ID)
        merged == [h EXCEPT !.Competitions = h.Competitions \o kept]
    IN  IF ~canMarshal(h) THEN [file |-> file, err |-> TRUE]
        ELSE IF outcome = "ok"
             THEN [file |-> JsonFile(marshalHistory(merged)), err |-> FALSE]
        ELSE IF outcome = "open_error" THEN [file |-> file, err |-> TRUE]
        ELSE [file |-> GarbageFile, err |-> TRUE]

\* SaveHistory on the file of an address: the file afterwards and err.
\* os.WriteFile truncates, then writes: a failed open leaves the file as it
\* was, a failed write leaves a truncated one.
SaveHistory(file, userData, outcome) ==
    LET h == toUserHistory(userData)
    IN  IF ~canMarshal(h) THEN [file |-> file, err |-> TRUE]
        ELSE IF outcome = "ok"
             THEN [file |-> JsonFile(marshalHistory(h)), err |-> FALSE]
        ELSE IF outcome = "open_error" THEN [file |-> file, err |-> TRUE]
        ELSE [file |-> GarbageFile, err |-> TRUE]

(***************************************************************************)
(* AlloraService                                                           *)
(***************************************************************************)
\* FetchUserData / GetUserInfo: (user, err)
FetchUserData(address, fetchFail) ==
    IF address \in fetchFail THEN [user |-> Nil, err |-> TRUE]
    ELSE [user |-> upstream[address], err |-> FALSE]

\* FetchNetworkInferences: (inferer weights, err)
FetchNetworkInferences(topic, topicFail) ==
    IF topic \in topicFail THEN [weights |-> <<>>, err |-> TRUE]
    ELSE [weights |-> NetworkWeights(topic), err |-> FALSE]

\* index of the first entry of the worker, 0 if none
RECURSIVE firstWorker(_, _, _)
firstWorker(weights, address, k) ==
    IF k > Len(weights) THEN 0
    ELSE IF weights[k].Worker = address THEN k
    ELSE firstWorker(weights, address, k + 1)

\* an enrichment that takes the index from zero for the rank
updateCompetitionWeightFromZero(comp, weights, address) ==
    LET k == firstWorker(weights, address, 1)
    IN  IF k = 0 THEN comp
        ELSE [comp EXCEPT !.Weight = weights[k].Weight,
                          !.WeightRank = weights[k].Rank - 1,
                          !.TotalWeightParticipants = Len(weights)]

updateCompetitionWeight(comp, weights, address) ==
    LET k == firstWorker(weights, address, 1)
    IN  IF k = 0 THEN comp
        ELSE [comp EXCEPT !.Weight = weights[k].Weight,
                          !.WeightRank = weights[k].Rank,
                          !.TotalWeightParticipants = Len(weights)]

\* UpdateCompetitionWeights: (userData as left, err); the first weight
\* fetch that fails ends the loop with an error
RECURSIVE updateWeightsLoop(_, _, _, _)
updateWeightsLoop(userData, address, topicFail, i) ==
    IF i > Len(userData.Competitions) THEN [user |-> userData, err |-> FALSE]
    ELSE LET f == FetchNetworkInferences(userData.Competitions[i].TopicID, topicFail)
         IN  IF f.err THEN [user |-> userData, err |-> TRUE]
             ELSE updateWeightsLoop(
                      [userData EXCEPT !.Competitions[i] =
                           updateCompetitionWeight(userData.Competitions[i],
                                                   processWeights(f.weights), address)],
                      address, topicFail, i + 1)

UpdateCompetitionWeights(userData, address, topicFail) ==
    updateWeightsLoop(userData, address, topicFail, 1)

(***************************************************************************)
(* TelegramService                                                         *)
(***************************************************************************)
UserRankInfo(address, user) ==
    [Address |-> address, Ranking |-> user.Ranking, Points |-> user.TotalPoints,
     Competitions |-> user.Competitions]

\* sort.Slice(users, Ranking <): below 12 elements an insertion sort, which
\* leaves users of equal rank in the order they were appended
RECURSIVE insertByRanking(_, _)
insertByRanking(sorted, u) ==
    IF sorted = <<>> THEN <<u>>
    ELSE IF u.Ranking < sorted[Len(sorted)].Ranking
         THEN Append(insertByRanking(SubSeq(sorted, 1, Len(sorted) - 1), u),
                     sorted[Len(sorted)])
         ELSE Append(sorted, u)

RECURSIVE sortByRanking(_)
sortByRanking(users) ==
    IF users = <<>> THEN <<>>
    ELSE insertByRanking(sortByRanking(SubSeq(users, 1, Len(users) - 1)),
                         users[Len(users)])

hasRankChangesOverall(changes) ==
    \E a \in DOMAIN changes : changes[a].OverallRankChanged

\* the loop "Check if there are any rank changes", lines 419-434
hasRankChanges(changes) ==
    \E a \in DOMAIN changes :
        \/ changes[a].OverallRankChanged
        \/ \E id \in DOMAIN changes[a].CompChanges :
               changes[a].CompChanges[id].RankChanged

\* One turn of the loop of CheckRankChanges, lines 361-416.  acc.userData is
\* the map of line 358: the userData of line 363 is a new variable of the
\* loop body, so the map is never written.
checkAddress(acc, address, fetchFail, topicFail) ==
    LET f == FetchUserData(address, fetchFail)
    IN  IF f.err THEN acc
        ELSE LET u == UpdateCompetitionWeights(f.user, address, topicFail)
             IN  IF u.err THEN acc
                 ELSE LET l == LoadHistory(history[address])
                      IN  IF l.err THEN acc
                          ELSE [changes |->
                                    IF l.history # Nil
                                    THEN MapPut(acc.changes, address,
                                                inlineChange(u.user, l.history))
                                    ELSE acc.changes,
                                users |-> Append(acc.users,
                                                 UserRankInfo(address, u.user)),
                                userData |-> acc.userData]

RECURSIVE checkLoop(_, _, _, _)
checkLoop(acc, i, fetchFail, topicFail) ==
    IF i > Len(configAddress) THEN acc
    ELSE checkLoop(checkAddress(acc, configAddress[i], fetchFail, topicFail),
                   i + 1, fetchFail, topicFail)

EmptyBatch == [changes |-> <<>>, users |-> <<>>, userData |-> <<>>]

\* the files after "for address, user := range userData { SaveHistory }"
saveAll(files, userData, writeOutcome) ==
    [a \in Addresses |->
        IF a \in DOMAIN userData
        THEN SaveHistory(files[a], userData[a], writeOutcome[a]).file
        ELSE files[a]]

OpInputs(fetchFail, topicFail, writeOutcome, sendFail) ==
    [fetchFail |-> fetchFail, topicFail |-> topicFail,
     writeOutcome |-> writeOutcome, sendFail |-> sendFail]

\* TelegramService.CheckRankChanges, the periodic pass
CheckRankChanges(fetchFail, topicFail, writeOutcome, sendFail) ==
    /\ program = "service"
    /\ \E batch \in {checkLoop(EmptyBatch, 1, fetchFail, topicFail)} :
        \E worthy \in {hasRankChanges(batch.changes)} :
            /\ lastOp' = "CheckRankChanges"
            /\ opIn' = OpInputs(fetchFail, topicFail, writeOutcome, sendFail)
            /\ opUsers' = batch.users
            /\ opChanges' = batch.changes
            /\ notified' = worthy
            /\ delivered' = (worthy /\ ~sendFail)
            /\ report' = NoReport
            /\ history' = IF worthy
                          THEN saveAll(history, batch.userData, writeOutcome)
                          ELSE history
            /\ UNCHANGED <<program, upstream>>

\* a turn that gives the batch up when the fetch fails
handleAddressAborting(acc, address, fetchFail) ==
    LET f == FetchUserData(address, fetchFail)
    IN  IF f.err THEN EmptyBatch
        ELSE LET l == LoadHistory(history[address])
             IN  [changes |->
                      IF l.history # Nil
                      THEN MapPut(acc.changes, address,
                                  calculateChanges(f.user, l.history))
                      ELSE acc.changes,
                  users |-> Append(acc.users, UserRankInfo(address, f.user)),
                  userData |-> MapPut(acc.userData, address, f.user)]

\* One turn of the first loop of TelegramService.handleRankCommand, 269-300
handleAddress(acc, address, fetchFail) ==
    LET f == FetchUserData(address, fetchFail)
    IN  IF f.err THEN acc
        ELSE LET l == LoadHistory(history[address])
             IN  [changes |->
                      IF l.history # Nil
                      THEN MapPut(acc.changes, address,
                                  calculateChanges(f.user, l.history))
                      ELSE acc.changes,
                  users |-> Append(acc.users, UserRankInfo(address, f.user)),
                  userData |-> MapPut(acc.userData, address, f.user)]

RECURSIVE handleLoop(_, _, _)
handleLoop(acc, i, fetchFail) ==
    IF i > Len(configAddress) THEN acc
    ELSE handleLoop(handleAddress(acc, configAddress[i], fetchFail), i + 1, fetchFail)

\* the files after "for _, user := range users { SaveHistory }", 322-326
saveUsers(files, users, userData, writeOutcome) ==
    [a \in Addresses |->
        IF \E k \in 1..Len(users) : users[k].Address = a
        THEN SaveHistory(files[a], userData[a], writeOutcome[a]).file
        ELSE files[a]]

\* a /rank command that returns when the send fails
handleRankCommandReturning(fetchFail, writeOutcome, sendFail) ==
    /\ program = "service"
    /\ \E batch \in {handleLoop(EmptyBatch, 1, fetchFail)} :
        \E users \in {sortByRanking(batch.users)} :
            /\ lastOp' = "handleRankCommand"
            /\ opIn' = OpInputs(fetchFail, {}, writeOutcome, sendFail)
            /\ opUsers' = users
            /\ opChanges' = batch.changes
            /\ notified' = TRUE
            /\ delivered' = ~sendFail
            /\ report' = NoReport
            /\ history' = IF sendFail THEN history
                          ELSE saveUsers(history, users, batch.userData, writeOutcome)
            /\ UNCHANGED <<program, upstream>>

\* TelegramService.handleRankCommand, the /rank command
handleRankCommand(fetchFail, writeOutcome, sendFail) ==
    /\ program = "service"
    /\ \E batch \in {handleLoop(EmptyBatch, 1, fetchFail)} :
        \E users \in {sortByRanking(batch.users)} :
            /\ lastOp' = "handleRankCommand"
            /\ opIn' = OpInputs(fetchFail, {}, writeOutcome, sendFail)
            /\ opUsers' = users
            /\ opChanges' = batch.changes
            /\ notified' = TRUE
            /\ delivered' = ~sendFail
            /\ report' = NoReport
            /\ history' = saveUsers(history, users, batch.userData, writeOutcome)
            /\ UNCHANGED <<program, upstream>>

\* sort.Slice(weights, Weight >) of sendRankCommand: the same insertion sort
RECURSIVE insertByWeight(_, _)
insertByWeight(sorted, w) ==
    IF sorted = <<>> THEN <<w>>
    ELSE IF FGt(w.Weight, sorted[Len(sorted)].Weight)
         THEN Append(insertByWeight(SubSeq(sorted, 1, Len(sorted) - 1), w),
                     sorted[Len(sorted)])
         ELSE Append(sorted, w)

RECURSIVE sortByWeight(_)
sortByWeight(weights) ==
    IF weights = <<>> THEN <<>>
    ELSE insertByWeight(sortByWeight(SubSeq(weights, 1, Len(weights) - 1)),
                        weights[Len(weights)])

\* lines 551-565 of sendRankCommand: parse, sort, number
rankWeights(weights) ==
    LET sorted == sortByWeight(parseWeights(weights))
    IN  [i \in 1..Len(sorted) |-> [sorted[i] EXCEPT !.Rank = i]]

\* the loop over userData.Competitions of sendRankCommand, 540-578: a weight
\* fetch that fails skips that competition only
RECURSIVE enrichLoop(_, _, _, _)
enrichLoop(userData, address, topicFail, i) ==
    IF i > Len(userData.Competitions) THEN userData
    ELSE LET f == FetchNetworkInferences(userData.Competitions[i].TopicID, topicFail)
         IN  enrichLoop(
                 IF f.err THEN userData
                 ELSE [userData EXCEPT !.Competitions[i] =
                          updateCompetitionWeight(userData.Competitions[i],
                                                  rankWeights(f.weights), address)],
                 address, topicFail, i + 1)

\* One turn of the loop of sendRankCommand, 532-630.  acc.files are the
\* history files as the turns before left them.
sendAddress(acc, address, fetchFail, topicFail, writeOutcome) ==
    LET f == FetchUserData(address, fetchFail)
    IN  IF f.err THEN acc
        ELSE LET userData == enrichLoop(f.user, address, topicFail, 1)
                 l == LoadHistory(acc.files[address])
                 s == SaveHistory(acc.files[address], userData, writeOutcome[address])
             IN  [files |-> [acc.files EXCEPT ![address] = s.file],
                  users |-> Append(acc.users, UserRankInfo(address, userData)),
                  changes |->
                      IF l.history # Nil
                      THEN MapPut(acc.changes, address,
                                  inlineChange(userData, l.history))
                      ELSE acc.changes]

RECURSIVE sendLoop(_, _, _, _, _)
sendLoop(acc, i, fetchFail, topicFail, writeOutcome) ==
    IF i > Len(configAddress) THEN acc
    ELSE sendLoop(sendAddress(acc, configAddress[i], fetchFail, topicFail,
                              writeOutcome),
                  i + 1, fetchFail, topicFail, writeOutcome)

\* sendRankCommand, the /rank command of the package-level HandleUpdates
sendRankCommand(fetchFail, topicFail, writeOutcome, sendFail) ==
    /\ program = "service"
    /\ \E batch \in {sendLoop([files |-> history, users |-> <<>>, changes |-> <<>>],
                              1, fetchFail, topicFail, writeOutcome)} :
            /\ lastOp' = "sendRankCommand"
            /\ opIn' = OpInputs(fetchFail, topicFail, writeOutcome, sendFail)
            /\ opUsers' = sortByRanking(batch.users)
            /\ opChanges' = batch.changes
            /\ notified' = TRUE
            /\ delivered' = ~sendFail
            /\ report' = NoReport
            /\ history' = batch.files
            /\ UNCHANGED <<program, upstream>>

(***************************************************************************)
(* main.go, the single-file program: its history and its periodic pass     *)
(***************************************************************************)
\* its CompHistory holds id, points and ranking only
mainMarshal(h) ==
    [total_points |-> h.TotalPoints,
     ranking |-> h.Ranking,
     competitions |-> [i \in 1..Len(h.Competitions) |->
         [id |-> h.Competitions[i].ID,
          points |-> h.Competitions[i].Points,
          ranking |-> h.Competitions[i].Ranking]]]

mainUnmarshal(doc) ==
    [TotalPoints |-> doc.total_points,
     Ranking |-> doc.ranking,
     Competitions |-> [i \in 1..Len(doc.competitions) |->
         [ID |-> doc.competitions[i].id,
          Points |-> doc.competitions[i].points,
          Ranking |-> doc.competitions[i].ranking]]]

loadHistory(file) ==
    IF file.kind \in {"missing", "unreadable"}
    THEN IF file.kind = "missing" THEN [history |-> Nil, err |-> FALSE]
         ELSE [history |-> Nil, err |-> TRUE]
    ELSE IF file.kind = "garbage" THEN [history |-> Nil, err |-> TRUE]
    ELSE [history |-> mainUnmarshal(file.doc), err |-> FALSE]

saveHistory(file, h, outcome) ==
    IF ~(IsFinite(h.TotalPoints)
         /\ \A i \in 1..Len(h.Competitions) : IsFinite(h.Competitions[i].Points))
    THEN [file |-> file, err |-> TRUE]
    ELSE IF outcome = "ok" THEN [file |-> JsonFile(mainMarshal(h)), err |-> FALSE]
    ELSE IF outcome = "open_error" THEN [file |-> file, err |-> TRUE]
    ELSE [file |-> GarbageFile, err |-> TRUE]

\* lines 728-742: the new history of a fetched user
newHistory(userData) ==
    [TotalPoints |-> userData.TotalPoints,
     Ranking |-> userData.Ranking,
     Competitions |-> [i \in 1..Len(userData.Competitions) |->
         [ID |-> userData.Competitions[i].ID,
          Points |-> userData.Competitions[i].Points,
          Ranking |-> userData.Competitions[i].Ranking]]]

\* the inner loop, 704-712: the first previous standing of the same id with
\* another ranking, 0 if none
RECURSIVE firstDiffering(_, _, _)
firstDiffering(prevComps, comp, j) ==
    IF j > Len(prevComps) THEN 0
    ELSE IF comp.ID = prevComps[j].ID /\ comp.Ranking # prevComps[j].Ranking THEN j
    ELSE firstDiffering(prevComps, comp, j + 1)

\* the loop over userData.Competitions, 703-716: it ends at the first
\* competition after which rankChanged is set
RECURSIVE compRankLoop(_, _, _, _)
compRankLoop(comps, prevComps, i, flags) ==
    IF i > Len(comps) THEN flags
    ELSE LET j == firstDiffering(prevComps, comps[i], 1)
             now == [rankChanged |-> flags.rankChanged \/ j # 0,
                     rankIncreased |-> flags.rankIncreased
                                       \/ (j # 0 /\ comps[i].Ranking < prevComps[j].Ranking)]
         IN  IF now.rankChanged THEN now
             ELSE compRankLoop(comps, prevComps, i + 1, now)

\* One turn of the loop of checkRankChanges, 676-747
mainCheckAddress(acc, address, fetchFail, writeOutcome) ==
    LET l == loadHistory(acc.files[address])
    IN  IF l.err \/ l.history = Nil THEN acc
        ELSE LET f == FetchUserData(address, fetchFail)
             IN  IF f.err THEN acc
                 ELSE LET overall ==
                              [rankChanged |-> acc.flags.rankChanged
                                   \/ f.user.Ranking # l.history.Ranking,
                               rankIncreased |-> acc.flags.rankIncreased
                                   \/ f.user.Ranking < l.history.Ranking]
                      IN  [flags |-> compRankLoop(f.user.Competitions,
                                                  l.history.Competitions, 1, overall),
                           users |-> Append(acc.users, UserRankInfo(address, f.user)),
                           files |-> [acc.files EXCEPT ![address] =
                                         saveHistory(acc.files[address],
                                                     newHistory(f.user),
                                                     writeOutcome[address]).file]]

\* the ids of the competitions of the collected users, lines 438-443 (and
\* 797-803)
compIDsOf(users) ==
    UNION {{users[i].Competitions[j].ID : j \in 1..Len(users[i].Competitions)} :
               i \in 1..Len(users)}

RECURSIVE firstCompWithID(_, _, _)
firstCompWithID(comps, id, j) ==
    IF j > Len(comps) THEN Nil
    ELSE IF comps[j].ID = id THEN comps[j]
         ELSE firstCompWithID(comps, id, j + 1)

\* lines 466-485 (and 821-843): the users that take part in the competition,
\* in the order of the user list
RECURSIVE compUsersOf(_, _, _)
compUsersOf(users, id, i) ==
    IF i > Len(users) THEN <<>>
    ELSE LET comp == firstCompWithID(users[i].Competitions, id, 1)
         IN  IF comp = Nil THEN compUsersOf(users, id, i + 1)
             ELSE <<[Address |-> users[i].Address, Ranking |-> comp.Ranking,
                     Points |-> comp.Points]>> \o compUsersOf(users, id, i + 1)

\* sort.Ints over the ids, lines 805-810
RECURSIVE sortInts(_)
sortInts(ids) ==
    IF ids = {} THEN <<>>
    ELSE LET least == CHOOSE x \in ids : \A y \in ids : x <= y
         IN  <<least>> \o sortInts(ids \ {least})

\* lines 769-794: the lines of the overall section.  The history is loaded
\* again here, from the files as they are at this point of the pass; a
\* difference of zero prints no mark
RECURSIVE overallRows(_, _, _)
overallRows(users, files, i) ==
    IF i > Len(users) THEN <<>>
    ELSE LET prevHistory == loadHistory(files[users[i].Address]).history
         IN  <<[Address |-> users[i].Address, ID |-> 0,
                rankDiff |-> IF prevHistory = Nil THEN 0
                             ELSE prevHistory.Ranking - users[i].Ranking,
                pointsDiff |-> IF prevHistory = Nil THEN 0
                               ELSE users[i].Points - prevHistory.TotalPoints]>>
             \o overallRows(users, files, i + 1)

\* lines 851-880: the lines of the section of one competition
RECURSIVE compRows(_, _, _, _)
compRows(compUsers, compID, files, i) ==
    IF i > Len(compUsers) THEN <<>>
    ELSE LET prevHistory == loadHistory(files[compUsers[i].Address]).history
             pc == IF prevHistory = Nil THEN Nil
                   ELSE firstCompWithID(prevHistory.Competitions, compID, 1)
         IN  <<[Address |-> compUsers[i].Address, ID |-> compID,
                rankDiff |-> IF pc = Nil THEN 0
                             ELSE pc.Ranking - compUsers[i].Ranking,
                pointsDiff |-> IF pc = Nil THEN 0
                               ELSE compUsers[i].Points - pc.Points]>>
             \o compRows(compUsers, compID, files, i + 1)

\* lines 813-881: the sections of the competitions, by ascending id
RECURSIVE sectionRows(_, _, _, _)
sectionRows(users, sortedCompIDs, files, k) ==
    IF k > Len(sortedCompIDs) THEN <<>>
    ELSE compRows(sortByRanking(compUsersOf(users, sortedCompIDs[k], 1)),
                  sortedCompIDs[k], files, 1)
             \o sectionRows(users, sortedCompIDs, files, k + 1)

\* lines 750-881: the alert, its header by the direction of the change
alertMessage(flags, users, files) ==
    [header |-> IF flags.rankIncreased THEN "Rank Increase Alert!"
                ELSE "Rank Decrease Alert!",
     rows |-> overallRows(users, files, 1)
                  \o sectionRows(users, sortInts(compIDsOf(users)), files, 1)]

RECURSIVE mainCheckLoop(_, _, _, _)
mainCheckLoop(acc, i, fetchFail, writeOutcome) ==
    IF i > Len(configAddress) THEN acc
    ELSE mainCheckLoop(mainCheckAddress(acc, configAddress[i], fetchFail, writeOutcome),
                       i + 1, fetchFail, writeOutcome)

\* checkRankChanges of main.go, the periodic pass
checkRankChanges(fetchFail, writeOutcome, sendFail) ==
    /\ program = "main"
    /\ \E batch \in {mainCheckLoop([flags |-> [rankChanged |-> FALSE,
                                                rankIncreased |-> FALSE],
                                     users |-> <<>>, files |-> history],
                                    1, fetchFail, writeOutcome)} :
            /\ lastOp' = "checkRankChanges"
            /\ opIn' = OpInputs(fetchFail, {}, writeOutcome, sendFail)
            /\ opUsers' = IF batch.flags.rankChanged
                          THEN sortByRanking(batch.users) ELSE batch.users
            /\ opChanges' = <<>>
            /\ notified' = batch.flags.rankChanged
            /\ delivered' = (batch.flags.rankChanged /\ ~sendFail)
            /\ report' = IF batch.flags.rankChanged
                         THEN alertMessage(batch.flags, sortByRanking(batch.users),
                                           batch.files)
                         ELSE NoReport
            /\ history' = batch.files
            /\ UNCHANGED <<program, upstream>>

(***************************************************************************)
(* Specification of the bot: the API moves, the periodic pass and the      *)
(* /rank command run one after the other                                   *)
(***************************************************************************)
DetectIdle ==
    /\ dCur = [TotalPoints |-> 10, Ranking |-> 1, Competitions |-> <<>>]
    /\ dPrev = [TotalPoints |-> 10, Ranking |-> 1, Competitions |-> <<>>]
    /\ dOut = NoChange
    /\ dInline = NoChange
    /\ dDone = FALSE

NoEnrichment == [done |-> FALSE]

RankIdle ==
    /\ wIn = <<>>
    /\ wOut = <<>>
    /\ wPerm = <<>>
    /\ wDone = FALSE
    /\ wEnrich = NoEnrichment

NoFailure == [a \in Addresses |-> "ok"]

NoInputs == OpInputs({}, {}, NoFailure, FALSE)

\* no call of the store on its own yet
StoreIdle ==
    [pc |-> "idle", key |-> "", rec |-> Nil, outcome |-> "", err |-> FALSE,
     before |-> MissingFile, loaded |-> FALSE, ret |-> Nil]

\* no pass running turn by turn
PassIdle ==
    [at |-> 0, visited |-> <<>>, acc |-> EmptyBatch, in |-> NoInputs, answers |-> <<>>]

SideIdle ==
    /\ store = StoreIdle
    /\ pass = PassIdle
    /\ cmd = CmdIdle
    /\ loop = LoopIdle
    /\ boot = BootIdle

OpIdle ==
    /\ report = NoReport
    /\ lastOp = "none"
    /\ opIn = NoInputs
    /\ opUsers = <<>>
    /\ opChanges = <<>>
    /\ notified = FALSE
    /\ delivered = FALSE

BotIdle ==
    /\ program = "service"
    /\ upstream = [a \in Addresses |->
                      [TotalPoints |-> 10, Ranking |-> 1, Competitions |-> <<>>]]
    /\ history = [a \in Addresses |-> MissingFile]
    /\ OpIdle
    /\ SideIdle

\* a fresh installation of the service: no history file yet
Init ==
    /\ program = "service"
    /\ upstream \in [Addresses -> UNION {UpstreamUsers(a) : a \in Addresses}]
    /\ \A a \in Addresses : upstream[a] \in UpstreamUsers(a)
    /\ history = [a \in Addresses |-> MissingFile]
    /\ OpIdle
    /\ SideIdle
    /\ RankIdle
    /\ DetectIdle

\* the leaderboard moves: the API serves another record for one address
UpstreamMoves ==
    /\ \E a \in Addresses : \E u \in UpstreamUsers(a) :
           /\ u # upstream[a]
           /\ upstream' = [upstream EXCEPT ![a] = u]
    /\ lastOp' = "none"
    /\ opIn' = NoInputs
    /\ opUsers' = <<>>
    /\ opChanges' = <<>>
    /\ notified' = FALSE
    /\ delivered' = FALSE
    /\ report' = NoReport
    /\ UNCHANGED <<program, history>>

\* a history file is damaged on disk (a write cut short by a crash)
FileDamaged ==
    /\ \E a \in Addresses :
           /\ history[a].kind = "json"
           /\ history' = [history EXCEPT ![a] = GarbageFile]
    /\ lastOp' = "none"
    /\ opIn' = NoInputs
    /\ opUsers' = <<>>
    /\ opChanges' = <<>>
    /\ notified' = FALSE
    /\ delivered' = FALSE
    /\ report' = NoReport
    /\ UNCHANGED <<program, upstream>>

\* the topics whose weights a pass asks for: those of the users it fetched
TopicsAsked(fetchFail) ==
    UNION {{upstream[a].Competitions[i].TopicID :
               i \in 1..Len(upstream[a].Competitions)} : a \in Addresses \ fetchFail}

\* at most one weight fetch fails in a pass, and only one that is made
TopicFailures(fetchFail) == {{}} \cup {{t} : t \in TopicsAsked(fetchFail)}

PeriodicPass ==
    \E fetchFail \in SUBSET Addresses :
        \E topicFail \in TopicFailures(fetchFail) :
            CheckRankChanges(fetchFail, topicFail, NoFailure, FALSE)

RankCommand ==
    \E fetchFail \in SUBSET Addresses :
        handleRankCommand(fetchFail, NoFailure, FALSE)

SendRankCommand ==
    \E fetchFail \in SUBSET Addresses :
        \E topicFail \in TopicFailures(fetchFail) :
            sendRankCommand(fetchFail, topicFail, NoFailure, FALSE)

Next ==
    \/ (UpstreamMoves /\ UNCHANGED <<rankVars, detectVars, sideVars, sysVars>>)
    \/ (FileDamaged /\ UNCHANGED <<rankVars, detectVars, sideVars, sysVars>>)
    \/ (PeriodicPass /\ UNCHANGED <<rankVars, detectVars, sideVars, sysVars>>)
    \/ (RankCommand /\ UNCHANGED <<rankVars, detectVars, sideVars, sysVars>>)
    \/ (SendRankCommand /\ UNCHANGED <<rankVars, detectVars, sideVars, sysVars>>)

Spec == Init /\ [][Next]_vars

(***************************************************************************)
(* Specification of the periodic passes: the history files are those an    *)
(* earlier run left, then the pass of the service or the pass of main.go   *)
(***************************************************************************)
\* the files an earlier run of the program can have left for an address:
\* none, a damaged one, a snapshot; the service saves snapshots as
\* handleRankCommand or as sendRankCommand does
FilesLeft(prog, address) ==
    {MissingFile, GarbageFile}
    \cup (IF prog = "main"
          THEN {JsonFile(mainMarshal(newHistory(u))) : u \in UpstreamUsers(address)}
          ELSE {JsonFile(marshalHistory(toUserHistory(u))) :
                    u \in UpstreamUsers(address)}
               \cup {JsonFile(marshalHistory(toUserHistory(
                                  enrichLoop(u, address, {}, 1)))) :
                         u \in UpstreamUsers(address)})

InitPasses ==
    /\ program \in {"service", "main"}
    /\ upstream \in [Addresses -> UNION {UpstreamUsers(a) : a \in Addresses}]
    /\ \A a \in Addresses : upstream[a] \in UpstreamUsers(a)
    /\ history \in [Addresses -> UNION {FilesLeft(program, a) : a \in Addresses}]
    /\ \A a \in Addresses : history[a] \in FilesLeft(program, a)
    /\ OpIdle
    /\ SideIdle
    /\ RankIdle
    /\ DetectIdle

MainPeriodicPass ==
    \E fetchFail \in SUBSET Addresses :
        checkRankChanges(fetchFail, NoFailure, FALSE)

NextPasses ==
    \/ (UpstreamMoves /\ UNCHANGED <<rankVars, detectVars, sideVars, sysVars>>)
    \/ (PeriodicPass /\ UNCHANGED <<rankVars, detectVars, sideVars, sysVars>>)
    \/ (MainPeriodicPass /\ UNCHANGED <<rankVars, detectVars, sideVars, sysVars>>)

SpecPasses == InitPasses /\ [][NextPasses]_vars

(***************************************************************************)
(* Specification of the store on its own: saves, a process death inside a  *)
(* save, and the load of the next start                                    *)
(***************************************************************************)
\* records handed to SaveHistory: bare as fetched, enriched with a weight,
\* enriched with the weight that the text "1e999" parses to
StoreRecords ==
    {[TotalPoints |-> 10, Ranking |-> 1, Competitions |-> <<>>],
     [TotalPoints |-> 12, Ranking |-> 2,
      Competitions |-> <<Competition(2, 1, 20, 5, 2, 3)>>],
     [TotalPoints |-> 10, Ranking |-> 1,
      Competitions |-> <<Competition(1, 2, 20, PosInf, 1, 3)>>],
     [TotalPoints |-> 10, Ranking |-> 2,
      Competitions |-> <<Competition(1, 1, 20, 8, 1, 2), Competition(2, 2, 15, 0, 0, 0)>>],
     [TotalPoints |-> 12, Ranking |-> 1,
      Competitions |-> <<Competition(2, 1, 15, 5, 1, 2), Competition(1, 2, 20, 0, 0, 0)>>]}

\* the files found at the start
StoreFiles(prog) ==
    {MissingFile, GarbageFile, UnreadableFile,
     IF prog = "main"
     THEN JsonFile(mainMarshal(newHistory(
              [TotalPoints |-> 10, Ranking |-> 1,
               Competitions |-> <<FetchedComp(1, 1), FetchedComp(2, 1)>>])))
     ELSE JsonFile(marshalHistory(toUserHistory(
              [TotalPoints |-> 10, Ranking |-> 1,
               Competitions |-> <<FetchedComp(1, 1), FetchedComp(2, 1)>>])))}

\* where the process can die inside a save
CrashPoints == {"before_open", "after_truncate", "after_write"}

\* os.WriteFile cut short: O_TRUNC empties the file at the open, the bytes
\* follow; an empty or a cut file does not decode
crashedWrite(file, doc, point) ==
    IF point = "before_open" THEN file
    ELSE IF point = "after_truncate" THEN GarbageFile
    ELSE JsonFile(doc)

\* SaveHistory cut short by the death of the process
crashedSaveHistory(file, userData, point) ==
    LET h == toUserHistory(userData)
    IN  IF ~canMarshal(h) THEN file ELSE crashedWrite(file, marshalHistory(h), point)

\* main.go saveHistory cut short by the death of the process
crashedSaveMain(file, h, point) ==
    crashedWrite(file, mainMarshal(h), point)

StoreInit ==
    /\ program \in {"service", "main"}
    /\ upstream \in [Addresses -> UNION {UpstreamUsers(a) : a \in Addresses}]
    /\ \A a \in Addresses : upstream[a] = CHOOSE u \in UpstreamUsers(a) : TRUE
    /\ history \in [Addresses -> StoreFiles(program)]
    /\ OpIdle
    /\ SideIdle
    /\ RankIdle
    /\ DetectIdle

\* one call of SaveHistory (of saveHistory in main.go) that returns
StoreSave ==
    \E k \in Addresses, S \in StoreRecords, outcome \in WriteOutcomes :
        \E r \in {IF program = "service"
                  THEN SaveHistory(history[k], S, outcome)
                  ELSE saveHistory(history[k], newHistory(S), outcome)} :
            /\ history' = [history EXCEPT ![k] = r.file]
            /\ store' = [pc |-> "saved", key |-> k, rec |-> S, outcome |-> outcome,
                         err |-> r.err, before |-> history[k], loaded |-> FALSE,
                         ret |-> Nil]
            /\ UNCHANGED <<program, upstream, pass>>
            /\ UNCHANGED <<lastOp, opIn, opUsers, opChanges, notified, delivered, report>>

\* one call of it that the death of the process cuts short
StoreCrash ==
    \E k \in Addresses, S \in StoreRecords, point \in CrashPoints :
        \E f \in {IF program = "service"
                  THEN crashedSaveHistory(history[k], S, point)
                  ELSE crashedSaveMain(history[k], newHistory(S), point)} :
            /\ history' = [history EXCEPT ![k] = f]
            /\ store' = [pc |-> "crashed", key |-> k, rec |-> S, outcome |-> point,
                         err |-> TRUE, before |-> history[k], loaded |-> FALSE,
                         ret |-> Nil]
            /\ UNCHANGED <<program, upstream, pass>>
            /\ UNCHANGED <<lastOp, opIn, opUsers, opChanges, notified, delivered, report>>

\* LoadHistory (loadHistory in main.go): at the start, or of the key last saved
StoreLoad ==
    \E k \in Addresses :
        /\ store.pc = "idle" \/ k = store.key
        /\ ~store.loaded
        /\ store' = [store EXCEPT !.key = k, !.loaded = TRUE,
                                  !.ret = IF program = "service"
                                          THEN LoadHistory(history[k])
                                          ELSE loadHistory(history[k])]
        /\ UNCHANGED <<program, upstream, history, pass>>
        /\ UNCHANGED <<lastOp, opIn, opUsers, opChanges, notified, delivered, report>>

StoreNext ==
    \/ (StoreSave /\ UNCHANGED <<rankVars, detectVars, sysVars>>)
    \/ (StoreCrash /\ UNCHANGED <<rankVars, detectVars, sysVars>>)
    \/ (StoreLoad /\ UNCHANGED <<rankVars, detectVars, sysVars>>)

SpecStore == StoreInit /\ [][StoreNext]_vars

(***************************************************************************)
(* Specification of one handler run under failures: every fetch, every     *)
(* write and the delivery can fail                                         *)
(***************************************************************************)
\* the orders in which the goroutines of handleRankCommand of main.go can
\* hand their users to the channel
Arrivals ==
    {<<configAddress[1], configAddress[2]>>, <<configAddress[2], configAddress[1]>>}

\* lines 338-372 of main.go: the users the channel delivers
RECURSIVE mainCollect(_, _, _)
mainCollect(arrival, i, fetchFail) ==
    IF i > Len(arrival) THEN <<>>
    ELSE LET f == FetchUserData(arrival[i], fetchFail)
         IN  IF f.err THEN mainCollect(arrival, i + 1, fetchFail)
             ELSE <<UserRankInfo(arrival[i], f.user)>>
                      \o mainCollect(arrival, i + 1, fetchFail)

\* handleRankCommand of main.go: it reads the history for the change marks
\* and writes none
mainHandleRankCommand(fetchFail, arrival, sendFail) ==
    /\ program = "main"
    /\ \E users \in {mainCollect(arrival, 1, fetchFail)} :
        /\ lastOp' = "main.handleRankCommand"
        /\ opIn' = OpInputs(fetchFail, {}, NoFailure, sendFail)
        /\ opUsers' = sortByRanking(users)
        /\ opChanges' = <<>>
        /\ notified' = (Len(users) # 0)
        /\ delivered' = (Len(users) # 0 /\ ~sendFail)
        /\ report' = NoReport
        /\ UNCHANGED <<program, upstream, history>>

\* at most one write of a run fails
WriteFaults ==
    {wo \in [Addresses -> WriteOutcomes] :
         \A a \in Addresses : \A b \in Addresses :
             (wo[a] # "ok" /\ wo[b] # "ok") => a = b}

FaultyPass ==
    \E fetchFail \in SUBSET Addresses, writeOutcome \in WriteFaults, sendFail \in BOOLEAN :
        \E topicFail \in TopicFailures(fetchFail) :
            CheckRankChanges(fetchFail, topicFail, writeOutcome, sendFail)

FaultyRankCommand ==
    \E fetchFail \in SUBSET Addresses, writeOutcome \in WriteFaults, sendFail \in BOOLEAN :
        handleRankCommand(fetchFail, writeOutcome, sendFail)

FaultyMainPass ==
    \E fetchFail \in SUBSET Addresses, writeOutcome \in WriteFaults, sendFail \in BOOLEAN :
        checkRankChanges(fetchFail, writeOutcome, sendFail)

MainRankCommand ==
    \E fetchFail \in SUBSET Addresses, arrival \in Arrivals, sendFail \in BOOLEAN :
        mainHandleRankCommand(fetchFail, arrival, sendFail)

\* one run from every state an earlier run can have left: a second run
\* starts from a state that is among these already
NextFaults ==
    \/ (lastOp = "none" /\ FaultyPass /\ UNCHANGED <<rankVars, detectVars, sideVars, sysVars>>)
    \/ (lastOp = "none" /\ FaultyRankCommand /\ UNCHANGED <<rankVars, detectVars, sideVars, sysVars>>)
    \/ (lastOp = "none" /\ FaultyMainPass /\ UNCHANGED <<rankVars, detectVars, sideVars, sysVars>>)
    \/ (lastOp = "none" /\ MainRankCommand /\ UNCHANGED <<rankVars, detectVars, sideVars, sysVars>>)

SpecFaults == InitPasses /\ [][NextFaults]_vars

(***************************************************************************)
(* Specification of one periodic pass of the service, turn by turn: every  *)
(* call of a turn returns, with a result or with an error                  *)
(***************************************************************************)
\* the pass has returned
PassDone == Len(configAddress) + 2

PassInit ==
    /\ program = "service"
    /\ upstream = [a \in Addresses |->
                       IF a = "w1"
                       THEN [TotalPoints |-> 10, Ranking |-> 1,
                             Competitions |-> <<FetchedComp(1, 1), FetchedComp(2, 1)>>]
                       ELSE [TotalPoints |-> 10, Ranking |-> 1, Competitions |-> <<>>]]
    /\ history \in [Addresses -> {MissingFile, GarbageFile,
                                  JsonFile(marshalHistory(toUserHistory(
                                      [TotalPoints |-> 10, Ranking |-> 2,
                                       Competitions |-> <<>>])))}]
    /\ OpIdle
    /\ SideIdle
    /\ RankIdle
    /\ DetectIdle

\* what the turns of a pass leave in changes, users and userData, one entry
\* per turn: the API and the disk answer the calls of a pass from the state
\* the pass started in
RECURSIVE turnAnswers(_, _, _, _)
turnAnswers(acc, i, fetchFail, topicFail) ==
    IF i > Len(configAddress) THEN <<>>
    ELSE LET next == checkAddress(acc, configAddress[i], fetchFail, topicFail)
         IN  <<next>> \o turnAnswers(next, i + 1, fetchFail, topicFail)

\* the ticker fires: CheckRankChanges starts, lines 354-358
PassBegin ==
    /\ pass.at = 0
    /\ \E fetchFail \in SUBSET Addresses, writeOutcome \in WriteFaults,
          sendFail \in BOOLEAN :
           \E topicFail \in TopicFailures(fetchFail) :
               \E answers \in {turnAnswers(EmptyBatch, 1, fetchFail, topicFail)} :
                   pass' = [at |-> 1, visited |-> <<>>, acc |-> EmptyBatch,
                            in |-> OpInputs(fetchFail, topicFail, writeOutcome, sendFail),
                            answers |-> answers]
    /\ UNCHANGED <<program, upstream, history, store>>
    /\ UNCHANGED <<lastOp, opIn, opUsers, opChanges, notified, delivered, report>>

\* a turn that ends the pass when the fetch of its address fails
PassTurnStopping ==
    /\ pass.at \in 1..Len(configAddress)
    /\ \E acc \in {pass.answers[pass.at]} :
           pass' = [pass EXCEPT
                       !.acc = acc,
                       !.visited = Append(pass.visited, configAddress[pass.at]),
                       !.at = IF configAddress[pass.at] \in pass.in.fetchFail
                              THEN Len(configAddress) + 1 ELSE pass.at + 1]
    /\ UNCHANGED <<program, upstream, history, store>>
    /\ UNCHANGED <<lastOp, opIn, opUsers, opChanges, notified, delivered, report>>

\* one turn of the loop over s.config.Allora.Address, lines 361-416
PassTurn ==
    /\ pass.at \in 1..Len(configAddress)
    /\ \E acc \in {pass.answers[pass.at]} :
           pass' = [pass EXCEPT
                       !.acc = acc,
                       !.visited = Append(pass.visited, configAddress[pass.at]),
                       !.at = pass.at + 1]
    /\ UNCHANGED <<program, upstream, history, store>>
    /\ UNCHANGED <<lastOp, opIn, opUsers, opChanges, notified, delivered, report>>

\* after the loop, lines 418-448: the decision, the send, the saves
PassEnd ==
    /\ pass.at = Len(configAddress) + 1
    /\ \E worthy \in {hasRankChanges(pass.acc.changes)} :
           /\ lastOp' = "CheckRankChanges"
           /\ opIn' = pass.in
           /\ opUsers' = pass.acc.users
           /\ opChanges' = pass.acc.changes
           /\ notified' = worthy
           /\ delivered' = (worthy /\ ~pass.in.sendFail)
           /\ report' = NoReport
           /\ history' = IF worthy
                         THEN saveAll(history, pass.acc.userData, pass.in.writeOutcome)
                         ELSE history
    /\ pass' = [pass EXCEPT !.at = PassDone]
    /\ UNCHANGED <<program, upstream, store>>

PassNext ==
    \/ (PassBegin /\ UNCHANGED <<rankVars, detectVars, sysVars>>)
    \/ (PassTurn /\ UNCHANGED <<rankVars, detectVars, sysVars>>)
    \/ (PassEnd /\ UNCHANGED <<rankVars, detectVars, sysVars>>)

\* a step of a pass that has started
PassStep == (PassTurn \/ PassEnd) /\ UNCHANGED <<rankVars, detectVars, sysVars>>

\* the goroutine of the ticker runs on: a started pass takes its next step
SpecPass == PassInit /\ [][PassNext]_vars /\ WF_vars(PassStep)

(***************************************************************************)
(* Specification of the change detector: any current record and any       *)
(* previous snapshot, then one comparison                                  *)
(***************************************************************************)
\* current standings: weight fields as one enrichment leaves them
DetectComps ==
    {Competition(id, r, 20, 5, 2, 3) : id \in CompIDs, r \in Ranks}

\* previous standings: the same, or with points, weight and weight rank moved
DetectPrevComps ==
    {CompHistory(id, r, 20 + p, 5 + 3 * p, 2 - p, 3) :
        id \in CompIDs, r \in Ranks, p \in {0, 1}}

DetectUsers ==
    [TotalPoints : PointValues, Ranking : Ranks,
     Competitions : SeqsUpTo(DetectComps, MaxComps)]

DetectHistories ==
    [TotalPoints : PointValues, Ranking : Ranks,
     Competitions : SeqsUpTo(DetectPrevComps, MaxComps)]

DetectInit ==
    /\ dCur \in DetectUsers
    /\ dPrev \in DetectHistories
    /\ dOut = NoChange
    /\ dInline = NoChange
    /\ dDone = FALSE
    /\ RankIdle
    /\ BotIdle

RunCalculateChanges ==
    /\ ~dDone
    /\ dOut' = calculateChanges(dCur, dPrev)
    /\ dInline' = inlineChange(dCur, dPrev)
    /\ dDone' = TRUE
    /\ UNCHANGED <<dCur, dPrev>>
    /\ UNCHANGED rankVars
    /\ UNCHANGED botVars

DetectNext == RunCalculateChanges

SpecDetect == DetectInit /\ [][DetectNext]_vars

(***************************************************************************)
(* Change detector: what the claims speak of, read off the two inputs      *)
(***************************************************************************)
IdsOf(comps) == {comps[i].ID : i \in 1..Len(comps)}

DistinctIDs(comps) ==
    \A i, j \in 1..Len(comps) : i # j => comps[i].ID # comps[j].ID

\* the first previous standing with this id
FirstPrev(id) ==
    LET k == CHOOSE k \in 1..Len(dPrev.Competitions) :
                 /\ dPrev.Competitions[k].ID = id
                 /\ \A m \in 1..(k - 1) : dPrev.Competitions[m].ID # id
    IN  dPrev.Competitions[k]

\* the current standing the map entry of this id is left with: the last one
LastCur(id) ==
    LET k == CHOOSE k \in 1..Len(dCur.Competitions) :
                 /\ dCur.Competitions[k].ID = id
                 /\ \A m \in (k + 1)..Len(dCur.Competitions) :
                        dCur.Competitions[m].ID # id
    IN  dCur.Competitions[k]

AllUnchanged(change) ==
    /\ change.OverallRankChanged = FALSE
    /\ change.OverallRankDiff = 0
    /\ change.PointsDiff = 0
    /\ \A id \in DOMAIN change.CompChanges :
           /\ change.CompChanges[id].RankChanged = FALSE
           /\ change.CompChanges[id].RankDiff = 0
           /\ change.CompChanges[id].PointsDiff = 0
           /\ change.CompChanges[id].WeightDiff = 0
           /\ change.CompChanges[id].WeightRankDiff = 0

(***************************************************************************)
(* C7 (as stated): for any snapshot S, with any list of competition        *)
(* standings, calculateChanges(S, S) has every changed flag false and      *)
(* every delta 0.                                                          *)
(***************************************************************************)
C7_Idempotent ==
    (dDone /\ dPrev = toUserHistory(dCur)) => AllUnchanged(dOut)

(***************************************************************************)
(* C7 (amended): for any snapshot S whose competition ids are pairwise     *)
(* distinct, calculateChanges(S, S) has every changed flag false and every *)
(* delta 0, with one entry per competition of S.                           *)
(***************************************************************************)
C7_IdempotentDistinctIDs ==
    (dDone /\ dPrev = toUserHistory(dCur) /\ DistinctIDs(dCur.Competitions))
        => /\ AllUnchanged(dOut)
           /\ DOMAIN dOut.CompChanges = IdsOf(dCur.Competitions)

\* a snapshot of two competitions with different ranks compared with itself
C7_Witness ==
    /\ dDone
    /\ dPrev = toUserHistory(dCur)
    /\ Len(dCur.Competitions) = 2
    /\ dCur.Competitions[1].ID # dCur.Competitions[2].ID
    /\ dCur.Competitions[1].Ranking # dCur.Competitions[2].Ranking
    /\ DOMAIN dOut.CompChanges = {1, 2}

(***************************************************************************)
(* C9: the detector sets overall-rank-changed exactly when the current     *)
(* rank differs from the previous rank, the overall rank delta to previous *)
(* rank minus current rank (positive exactly when the current rank is      *)
(* smaller), and the point delta to current points minus previous points,  *)
(* whether or not the rank changed.                                        *)
(***************************************************************************)
OverallAsClaimed(change) ==
    /\ change.OverallRankChanged <=> (dCur.Ranking # dPrev.Ranking)
    /\ change.OverallRankDiff = dPrev.Ranking - dCur.Ranking
    /\ (change.OverallRankDiff > 0) <=> (dCur.Ranking < dPrev.Ranking)
    /\ change.PointsDiff = dCur.TotalPoints - dPrev.TotalPoints

C9_OverallDelta ==
    dDone => (OverallAsClaimed(dOut) /\ OverallAsClaimed(dInline))

\* the rank improved while the points went down
C9_Witness ==
    /\ dDone
    /\ dCur.Ranking < dPrev.Ranking
    /\ dCur.TotalPoints < dPrev.TotalPoints
    /\ dOut.OverallRankDiff = 1
    /\ dOut.PointsDiff = -2

(***************************************************************************)
(* C10: the competition map has an entry for an id exactly when the id     *)
(* occurs in both the current record and the previous snapshot; the entry  *)
(* is computed against the first previous standing with that id:           *)
(* rank-changed iff the ranks differ, rank delta = previous - current,     *)
(* point delta = current - previous, weight delta = current - previous,    *)
(* weight-rank delta = previous - current.  (When the current record       *)
(* repeats an id, the entry is that of its last standing with the id.)     *)
(***************************************************************************)
CompEntriesAsClaimed(change) ==
    /\ DOMAIN change.CompChanges
           = IdsOf(dCur.Competitions) \cap IdsOf(dPrev.Competitions)
    /\ \A id \in DOMAIN change.CompChanges :
           LET e == change.CompChanges[id]
               c == LastCur(id)
               q == FirstPrev(id)
           IN  /\ e.RankChanged <=> (c.Ranking # q.Ranking)
               /\ e.RankDiff = q.Ranking - c.Ranking
               /\ e.PointsDiff = c.Points - q.Points
               /\ e.WeightDiff = c.Weight - q.Weight
               /\ e.WeightRankDiff = q.WeightRank - c.WeightRank

C10_CompetitionEntries ==
    dDone => (CompEntriesAsClaimed(dOut) /\ CompEntriesAsClaimed(dInline))

\* the previous snapshot holds id 1 twice with different standings, the
\* current record holds id 1 and an id the snapshot lacks
C10_Witness ==
    /\ dDone
    /\ Len(dPrev.Competitions) = 2
    /\ dPrev.Competitions[1].ID = 1
    /\ dPrev.Competitions[2].ID = 1
    /\ dPrev.Competitions[1].Ranking # dPrev.Competitions[2].Ranking
    /\ dPrev.Competitions[1].Points # dPrev.Competitions[2].Points
    /\ IdsOf(dCur.Competitions) = {1, 2}
    /\ DOMAIN dOut.CompChanges = {1}
    /\ dOut.CompChanges[1].RankChanged

(***************************************************************************)
(* Specification of the weight ranker: any input list, then one call       *)
(***************************************************************************)
RankInit ==
    /\ wIn \in SeqsUpTo(InfererWeights, MaxWeights)
    /\ wOut = <<>>
    /\ wPerm = <<>>
    /\ wDone = FALSE
    /\ wEnrich = NoEnrichment
    /\ DetectIdle
    /\ BotIdle

RunProcessWeights ==
    /\ ~wDone
    /\ wOut' = processWeights(wIn)
    /\ wPerm' = sortedIndices(wIn)
    /\ wDone' = TRUE
    /\ UNCHANGED <<wIn, wEnrich>>
    /\ UNCHANGED detectVars
    /\ UNCHANGED botVars

\* the enrichment of a competition as fetched, for one address, from the
\* ranking of processWeights or from that of sendRankCommand (551-577)
RunUpdateCompetitionWeight ==
    /\ wDone
    /\ ~wEnrich.done
    /\ \E address \in Workers, via \in {"processWeights", "sendRankCommand"} :
           wEnrich' = [done |-> TRUE, address |-> address, via |-> via,
                       comp |-> updateCompetitionWeight(
                                    FetchedComp(1, 1),
                                    IF via = "processWeights" THEN wOut
                                    ELSE rankWeights(wIn),
                                    address)]
    /\ UNCHANGED <<wIn, wOut, wPerm, wDone>>
    /\ UNCHANGED detectVars
    /\ UNCHANGED botVars

RankNext == RunProcessWeights \/ RunUpdateCompetitionWeight

SpecRank == RankInit /\ [][RankNext]_vars

\* rank given to input entry i
RankOfInput(i) == CHOOSE k \in 1..Len(wPerm) : wPerm[k] = i

InWeight(i) == ParseFloat(wIn[i].Weight).val

FEq(a, b) == a # NaN /\ b # NaN /\ a = b

\* no entry of the input has a greater weight than entry i
IsTopWeight(i) == \A k \in 1..Len(wIn) : ~FGt(InWeight(k), InWeight(i))

SpecExampleInput ==
    <<[Worker |-> "w1", Weight |-> "0.5"],
      [Worker |-> "w2", Weight |-> "0.8"],
      [Worker |-> "w3", Weight |-> "0.8"]>>

C6_RanksArePermutation ==
    wDone =>
        LET n == Len(wIn) IN
        /\ Len(wOut) = n
        /\ Len(wPerm) = n
        /\ {wPerm[k] : k \in 1..n} = 1..n
        /\ \A k \in 1..n :
               /\ wOut[k].Worker = wIn[wPerm[k]].Worker
               /\ wOut[k].Weight = InWeight(wPerm[k])
               /\ wOut[k].Rank \in 1..n
        /\ \A a, b \in 1..n : a # b => wOut[a].Rank # wOut[b].Rank
        /\ \A a, b \in 1..n :
               FGt(wOut[a].Weight, wOut[b].Weight) => wOut[a].Rank < wOut[b].Rank

\* a list with a repeated worker, not already in descending order, ranked
C6_Witness ==
    /\ wDone
    /\ Len(wIn) = 3
    /\ wIn[1].Worker = wIn[3].Worker
    /\ FGt(InWeight(3), InWeight(2))
    /\ FGt(InWeight(2), InWeight(1))
    /\ wPerm = <<3, 2, 1>>

(***************************************************************************)
(* Properties of the handlers                                              *)
(***************************************************************************)
\* the addresses of the batch result of the last handler
Processed == {opUsers[k].Address : k \in DOMAIN opUsers}

UserOf(a) == opUsers[CHOOSE k \in DOMAIN opUsers : opUsers[k].Address = a]

\* the snapshot that holds exactly the data of a user of the batch
SnapshotOf(info) ==
    [TotalPoints |-> info.Points,
     Ranking |-> info.Ranking,
     Competitions |-> [i \in 1..Len(info.Competitions) |->
         [ID |-> info.Competitions[i].ID,
          Points |-> info.Competitions[i].Points,
          Ranking |-> info.Competitions[i].Ranking,
          Weight |-> info.Competitions[i].Weight,
          WeightRank |-> info.Competitions[i].WeightRank,
          TotalWeightParticipants |->
              info.Competitions[i].TotalWeightParticipants]]]

\* the snapshot stored for an address, Nil if none can be read
PrevOf(a) ==
    IF program = "main" THEN loadHistory(history[a]).history
    ELSE LoadHistory(history[a]).history

\* the overall rank, or the rank in a competition of the same id, differs
RankMoved(cur, prev) ==
    \/ cur.Ranking # prev.Ranking
    \/ \E i \in DOMAIN cur.Competitions : \E j \in DOMAIN prev.Competitions :
           /\ cur.Competitions[i].ID = prev.Competitions[j].ID
           /\ cur.Competitions[i].Ranking # prev.Competitions[j].Ranking

\* C1, as the specification states it: after a CheckRankChanges pass the
\* stored snapshot of every address of the batch result equals the data just
\* fetched for it, whether or not the pass notified.
C1_PassStoresFetchedData ==
    lastOp = "CheckRankChanges" =>
        \A a \in Processed :
            LoadHistory(history[a]) = [history |-> SnapshotOf(UserOf(a)), err |-> FALSE]

\* C2, as the specification states it: in a CheckRankChanges pass where the
\* fetch of A fails and B is fetched with a rank that differs from its
\* snapshot, the pass notifies, the snapshot of B becomes the fetched data
\* and the snapshot of A stays as it was.
C2_BatchIsolation ==
    [][\A A \in Addresses : \A B \in Addresses :
           (/\ lastOp' = "CheckRankChanges"
            /\ A \in opIn'.fetchFail
            /\ B \in Processed'
            /\ PrevOf(B) # Nil
            /\ RankMoved(upstream[B], PrevOf(B)))
           => (/\ notified'
               /\ LoadHistory(history'[B])
                      = [history |-> SnapshotOf(UserOf(B)'), err |-> FALSE]
               /\ history'[A] = history[A])]_vars

\* the part of C2 that the code keeps: the pass notifies and the file of A
\* is left alone; the pass leaves the file of B alone as well
C2_Witness ==
    /\ lastOp = "CheckRankChanges"
    /\ opIn.fetchFail = {"w1"}
    /\ notified
    /\ Processed = {"w2"}
    /\ PrevOf("w2") # Nil
    /\ PrevOf("w2").Ranking # upstream["w2"].Ranking

\* C3: a periodic pass, of the service or of main.go, sends a notification
\* exactly when some address of its batch result has a previous snapshot
\* from which its overall rank, or its rank in a competition of the same id,
\* differs; when only points or weights moved it sends nothing.
C3_NotifiesIffRankMoved ==
    [][lastOp' \in {"CheckRankChanges", "checkRankChanges"}
           => (notified' <=>
                   \E a \in Processed' :
                       /\ PrevOf(a) # Nil
                       /\ RankMoved(UserOf(a)', PrevOf(a)))]_vars

\* a pass of the service that notifies for a competition rank alone, while
\* the weights of the address moved as well
C3_Witness ==
    /\ lastOp = "CheckRankChanges"
    /\ notified
    /\ Processed = {"w1", "w2"}
    /\ \A a \in Processed :
           PrevOf(a) # Nil /\ PrevOf(a).Ranking = UserOf(a).Ranking
    /\ PrevOf("w2").TotalPoints # UserOf("w2").Points

\* C4, as the specification states it: in CheckRankChanges, when the weight
\* fetch of one competition of an address fails, the address is still in the
\* batch result and still compared with its snapshot, the weight fields of
\* that competition stay unset and its other competitions are enriched.
C4_WeightFailureIsLocal ==
    lastOp = "CheckRankChanges" =>
        \A a \in Addresses \ opIn.fetchFail :
            (/\ history[a].kind # "garbage"
             /\ \E i \in DOMAIN upstream[a].Competitions :
                    upstream[a].Competitions[i].TopicID \in opIn.topicFail)
            => (/\ a \in Processed
                /\ PrevOf(a) # Nil => a \in DOMAIN opChanges
                /\ \A i \in DOMAIN UserOf(a).Competitions :
                       LET c == UserOf(a).Competitions[i]
                       IN  IF c.TopicID \in opIn.topicFail
                           THEN c.Weight = 0 /\ c.WeightRank = 0
                                /\ c.TotalWeightParticipants = 0
                           ELSE c.TotalWeightParticipants
                                    = Len(NetworkWeights(c.TopicID)))

\* C8, as the specification states it: for an address with no previous
\* snapshot the change step of CheckRankChanges, handleRankCommand and
\* sendRankCommand yields a change record with every flag false and every
\* delta zero, not a missing entry.
C8_FirstSightYieldsRecord ==
    [][\A a \in Addresses :
           (/\ lastOp' \in {"CheckRankChanges", "handleRankCommand", "sendRankCommand"}
            /\ a \in Processed'
            /\ history[a] = MissingFile)
           => (a \in DOMAIN opChanges' /\ AllUnchanged(opChanges'[a]))]_vars

(***************************************************************************)
(* Properties of the store                                                 *)
(***************************************************************************)
\* a record whose numbers JSON can carry
ValidRecord(S) ==
    /\ IsFinite(S.TotalPoints)
    /\ \A i \in 1..Len(S.Competitions) :
           IsFinite(S.Competitions[i].Points) /\ IsFinite(S.Competitions[i].Weight)

\* the snapshot h holds the overall rank, the points and the competitions of S
SameSnapshot(h, S) ==
    /\ h.Ranking = S.Ranking
    /\ h.TotalPoints = S.TotalPoints
    /\ Len(h.Competitions) = Len(S.Competitions)
    /\ \A i \in 1..Len(S.Competitions) :
           /\ h.Competitions[i].ID = S.Competitions[i].ID
           /\ h.Competitions[i].Points = S.Competitions[i].Points
           /\ h.Competitions[i].Ranking = S.Competitions[i].Ranking
           /\ h.Competitions[i].Weight = S.Competitions[i].Weight
           /\ h.Competitions[i].WeightRank = S.Competitions[i].WeightRank
           /\ h.Competitions[i].TotalWeightParticipants =
                  S.Competitions[i].TotalWeightParticipants

\* C11: SaveHistory(k, S) of a valid record S whose write goes through,
\* followed by LoadHistory(k), returns without error a snapshot whose overall
\* rank, points and competition list are those of S
C11_SaveThenLoadReturnsRecord ==
    (/\ program = "service"
     /\ store.pc = "saved"
     /\ store.loaded
     /\ store.outcome = "ok"
     /\ ValidRecord(store.rec))
    => (/\ ~store.err
        /\ ~store.ret.err
        /\ store.ret.history # Nil
        /\ SameSnapshot(store.ret.history, store.rec))

C11_Witness ==
    /\ program = "service"
    /\ store.pc = "saved"
    /\ store.loaded
    /\ store.outcome = "ok"
    /\ ValidRecord(store.rec)
    /\ Len(store.rec.Competitions) = 2
    /\ store.rec.Competitions[1].Weight = 8
    /\ store.before.kind = "json"
    /\ ~store.ret.err

\* what the load of the next start returns on a file
LoadOf(prog, file) ==
    IF prog = "service" THEN LoadHistory(file) ELSE loadHistory(file)

\* the snapshot a completed save of record S stores
SnapshotSaved(prog, S) ==
    IF prog = "service" THEN toUserHistory(S) ELSE newHistory(S)

\* C12: when the process dies inside a save for key k, the load of k at the
\* next start returns what it returned before that save (the complete previous
\* snapshot) or the complete new snapshot, never the failure of a partial file
C12_CrashLeavesWholeSnapshot ==
    (store.pc = "crashed" /\ store.loaded)
    => \/ store.ret = LoadOf(program, store.before)
       \/ store.ret = [history |-> SnapshotSaved(program, store.rec), err |-> FALSE]

\* a complete snapshot was on disk, the process died after the truncation, the
\* next start cannot decode the file
C12_Witness ==
    /\ store.pc = "crashed"
    /\ store.loaded
    /\ store.outcome = "after_truncate"
    /\ store.before.kind = "json"
    /\ store.ret.err

\* C14: LoadHistory (and loadHistory of main.go) returns absent without error
\* exactly for a missing file, an error and no snapshot for an unreadable or
\* undecodable file, and the stored snapshot otherwise
C14_LoadTellsThreeOutcomes ==
    store.loaded
    => LET file == history[store.key]
           ret == store.ret
       IN  /\ file.kind = "missing" => (ret.history = Nil /\ ~ret.err)
           /\ file.kind \in {"unreadable", "garbage"} => (ret.history = Nil /\ ret.err)
           /\ file.kind = "json" =>
                  /\ ~ret.err
                  /\ ret.history # Nil
                  /\ ret.history.Ranking = file.doc.ranking
                  /\ ret.history.TotalPoints = file.doc.total_points
                  /\ Len(ret.history.Competitions) = Len(file.doc.competitions)
           /\ (ret.history = Nil /\ ~ret.err) => file.kind = "missing"
           /\ ret.err => file.kind # "missing"

C14_Witness ==
    /\ store.loaded
    /\ store.pc = "idle"
    /\ history[store.key].kind = "unreadable"
    /\ store.ret.err
    /\ \E other \in Addresses : history[other].kind = "missing"

(***************************************************************************)
(* Properties of the handlers under failures                               *)
(***************************************************************************)
\* the fetch of the address and of the weights of its topics go through
FetchesGoThrough(b, in) ==
    /\ b \notin in.fetchFail
    /\ \A i \in DOMAIN upstream[b].Competitions :
           upstream[b].Competitions[i].TopicID \notin in.topicFail

\* C13: in CheckRankChanges, handleRankCommand and sendRankCommand, when
\* LoadHistory fails for an address with an error other than not-found, the
\* stored file of that address is left as it was, and every other address
\* whose own steps succeed is still processed
C13_LoadFailureLeavesSnapshot ==
    [][\A a \in Addresses :
           (/\ lastOp' \in {"CheckRankChanges", "handleRankCommand", "sendRankCommand"}
            /\ LoadHistory(history[a]).err)
           => (/\ history'[a] = history[a]
               /\ \A b \in Addresses \ {a} :
                      (FetchesGoThrough(b, opIn') /\ ~LoadHistory(history[b]).err)
                      => b \in Processed')]_vars

\* the part of C13 that the periodic pass keeps: the address whose file does
\* not decode is skipped, its file is left alone, the other one is processed
C13_Witness ==
    /\ lastOp = "CheckRankChanges"
    /\ history["w1"].kind = "garbage"
    /\ "w1" \notin opIn.fetchFail
    /\ "w1" \notin Processed
    /\ "w2" \in Processed

\* the run of a handler over the list that holds address b alone: the report
\* and the file of b afterwards
AloneRun(op, b, in) ==
    IF op = "CheckRankChanges"
    THEN LET batch == checkAddress(EmptyBatch, b, {}, in.topicFail)
         IN  [users |-> batch.users, changes |-> batch.changes,
              notified |-> hasRankChanges(batch.changes),
              file |-> IF hasRankChanges(batch.changes)
                       THEN saveAll(history, batch.userData, in.writeOutcome)[b]
                       ELSE history[b]]
    ELSE IF op = "handleRankCommand"
    THEN LET batch == handleAddress(EmptyBatch, b, {})
         IN  [users |-> batch.users, changes |-> batch.changes, notified |-> TRUE,
              file |-> saveUsers(history, batch.users, batch.userData,
                                 in.writeOutcome)[b]]
    ELSE [users |-> mainCollect(<<b>>, 1, {}), changes |-> <<>>, notified |-> TRUE,
          file |-> history[b]]

\* C15: in a pass of CheckRankChanges or handleRankCommand an address whose
\* user-record fetch fails has no entry in the user list, none in the change
\* map and no write of its file, and every other address gets the entries and
\* the file it gets from the run over the list without the failing address
C15_FetchFailureIsIsolated ==
    [][\A a \in Addresses :
           (/\ lastOp' \in {"CheckRankChanges", "handleRankCommand",
                            "main.handleRankCommand"}
            /\ a \in opIn'.fetchFail)
           => (/\ a \notin Processed'
               /\ a \notin DOMAIN opChanges'
               /\ history'[a] = history[a]
               /\ \A b \in Addresses \ opIn'.fetchFail :
                      LET alone == AloneRun(lastOp', b, opIn')
                      IN  /\ b \in Processed' <=> alone.users # <<>>
                          /\ b \in Processed' => UserOf(b)' = alone.users[1]
                          /\ b \in DOMAIN opChanges' <=> b \in DOMAIN alone.changes
                          /\ b \in DOMAIN alone.changes
                                 => opChanges'[b] = alone.changes[b]
                          /\ notified' = alone.notified
                          /\ history'[b] = alone.file)]_vars

C15_Witness ==
    /\ lastOp = "handleRankCommand"
    /\ opIn.fetchFail = {"w2"}
    /\ history["w2"].kind = "json"
    /\ Processed = {"w1"}
    /\ "w1" \in DOMAIN opChanges
    /\ opChanges["w1"].OverallRankChanged \/ opChanges["w1"].CompChanges # <<>>

\* the file of address a after a run, from the files before it and from the
\* failures of the run other than that of the delivery; the periodic pass of
\* the service writes no file
FileAfterRun(op, a, in) ==
    IF op = "handleRankCommand"
    THEN IF a \in in.fetchFail THEN history[a]
         ELSE SaveHistory(history[a], upstream[a], in.writeOutcome[a]).file
    ELSE IF op = "checkRankChanges"
    THEN IF \/ a \in in.fetchFail
            \/ loadHistory(history[a]).err
            \/ loadHistory(history[a]).history = Nil
         THEN history[a]
         ELSE saveHistory(history[a], newHistory(upstream[a]), in.writeOutcome[a]).file
    ELSE history[a]

\* C16: in TelegramService.handleRankCommand, TelegramService.CheckRankChanges
\* and checkRankChanges of main.go the files written by a run and their
\* contents are fixed by the fetches, the loads and the writes alone: they are
\* the same whether the send succeeds or fails
C16_DeliveryFailureKeepsWrites ==
    [][lastOp' \in {"handleRankCommand", "CheckRankChanges", "checkRankChanges"}
       => \A a \in Addresses : history'[a] = FileAfterRun(lastOp', a, opIn')]_vars

\* the send of a /rank command fails and the file of w2, stored at another
\* overall rank, holds the record just fetched
C16_Witness ==
    /\ lastOp = "handleRankCommand"
    /\ opIn.sendFail
    /\ ~delivered
    /\ "w2" \in DOMAIN opChanges
    /\ opChanges["w2"].OverallRankChanged
    /\ LoadHistory(history["w2"]) = [history |-> SnapshotOf(UserOf("w2")), err |-> FALSE]

(***************************************************************************)
(* Properties of the pass, turn by turn                                    *)
(***************************************************************************)
\* C17: a pass of CheckRankChanges visits the configured addresses in list
\* order, each once, and a pass that has started ends having visited all of
\* them, whatever fetch, weight-fetch, load, save and delivery failures occur
C17_PassVisitsAllAndEnds ==
    /\ [](pass.visited = SubSeq(configAddress, 1, Len(pass.visited)))
    /\ [](pass.at = PassDone => pass.visited = configAddress)
    /\ ((pass.at = 1) ~> (pass.at = PassDone))

\* a pass has ended whose first fetch failed, whose second address has a file
\* that does not decode and whose send failed
C17_Witness ==
    /\ pass.at = PassDone
    /\ pass.visited = configAddress
    /\ pass.in.fetchFail = {"w1"}
    /\ history["w2"].kind = "garbage"
    /\ Processed = {}

(***************************************************************************)
(* Properties of the weight ranking under parse failures, of the           *)
(* enrichment and of the save                                              *)
(***************************************************************************)
\* the input with the text of entry i replaced by "0"
ZeroedAt(weights, i) == [weights EXCEPT ![i].Weight = "0"]

\* C18: in processWeights a weight text that fails to parse is ranked as
\* weight 0: its entry is in the output with weight 0 and a rank, and every
\* entry gets the rank it gets when the text is "0"
C18_UnparsedWeightRanksAsZero ==
    wDone =>
        \A i \in 1..Len(wIn) :
            ParseFloat(wIn[i].Weight).err
            => /\ \E k \in 1..Len(wOut) :
                      /\ wPerm[k] = i
                      /\ wOut[k].Weight = 0
                      /\ wOut[k].Rank \in 1..Len(wIn)
               /\ wPerm = sortedIndices(ZeroedAt(wIn, i))

\* the part of C18 that the code keeps: a text with a syntax error is ranked
\* below a positive weight, as "0" is
C18_Witness ==
    /\ wDone
    /\ Len(wIn) = 2
    /\ wIn[1].Weight = "abc"
    /\ wIn[2].Weight = "0.5"
    /\ wPerm = <<2, 1>>
    /\ wOut[2].Weight = 0
    /\ wOut[2].Rank = 2

\* C19: SaveHistory(k, S) that returns no error leaves for k a snapshot that
\* holds exactly the competitions of S, in their order, nothing of the earlier
\* snapshot of k, and leaves the file of every other key as it was
C19_SaveReplacesOneKey ==
    [][(program = "service" /\ store'.pc = "saved" /\ ~store'.err)
       => LET k == store'.key
              S == store'.rec
          IN  /\ history'[k].kind = "json"
              /\ Len(history'[k].doc.competitions) = Len(S.Competitions)
              /\ \A i \in 1..Len(S.Competitions) :
                     /\ history'[k].doc.competitions[i].id = S.Competitions[i].ID
                     /\ history'[k].doc.competitions[i].ranking
                            = S.Competitions[i].Ranking
                     /\ history'[k].doc.competitions[i].points
                            = S.Competitions[i].Points
              /\ history'[k].doc.ranking = S.Ranking
              /\ history'[k].doc.total_points = S.TotalPoints
              /\ \A other \in Addresses \ {k} : history'[other] = history[other]]_vars

\* a snapshot of two competitions has been replaced by a record that holds
\* none, next to the stored snapshot of the other key
C19_Witness ==
    /\ program = "service"
    /\ store.pc = "saved"
    /\ ~store.err
    /\ store.before.kind = "json"
    /\ Len(store.before.doc.competitions) = 2
    /\ store.rec.Competitions = <<>>
    /\ history[store.key].doc.competitions = <<>>
    /\ \E other \in Addresses \ {store.key} : history[other].kind = "json"

\* C20: after updateCompetitionWeight for an address, either the address is
\* the worker of a weight entry and 1 <= WeightRank <= TotalWeightParticipants
\* = the number of weight entries, or it is the worker of none and WeightRank
\* and TotalWeightParticipants are left at 0
C20_WeightRankWithinParticipants ==
    wEnrich.done =>
        LET c == wEnrich.comp
        IN  IF \E i \in 1..Len(wIn) : wIn[i].Worker = wEnrich.address
            THEN /\ c.TotalWeightParticipants = Len(wIn)
                 /\ 1 <= c.WeightRank
                 /\ c.WeightRank <= c.TotalWeightParticipants
            ELSE /\ c.WeightRank = 0
                 /\ c.TotalWeightParticipants = 0

\* the address is the worker of the entry of greatest weight of three
C20_Witness ==
    /\ wEnrich.done
    /\ wEnrich.via = "sendRankCommand"
    /\ Len(wIn) = 3
    /\ wIn[3].Worker = wEnrich.address
    /\ wIn[1].Worker # wEnrich.address
    /\ wIn[2].Worker # wEnrich.address
    /\ wEnrich.comp.WeightRank = 1
    /\ wEnrich.comp.TotalWeightParticipants = 3
    /\ wEnrich.comp.Weight = 8

(***************************************************************************)
(* Properties of main.go                                                   *)
(***************************************************************************)
\* C21: a pass of checkRankChanges of main.go in which the fetch of an
\* address without stored snapshot succeeds (and the write goes through)
\* leaves a stored snapshot of the fetched record for that address
C21_FirstPassStoresSnapshot ==
    [][\A a \in Addresses :
           (/\ lastOp' = "checkRankChanges"
            /\ history[a].kind = "missing"
            /\ a \notin opIn'.fetchFail
            /\ opIn'.writeOutcome[a] = "ok")
           => loadHistory(history'[a])
                  = [history |-> newHistory(upstream[a]), err |-> FALSE]]_vars

\* a pass of main.go has run over an address without snapshot whose fetch was
\* not made to fail: the address is not in the report and has no file
C21_Witness ==
    /\ lastOp = "checkRankChanges"
    /\ "w2" \notin opIn.fetchFail
    /\ history["w2"].kind = "missing"
    /\ "w2" \notin Processed
    /\ "w1" \in Processed

(***************************************************************************)
(* Specification of handleRankCommand of main.go, goroutine by goroutine   *)
(***************************************************************************)
\* the main goroutine is at the start of handleRankCommand
CmdInit ==
    /\ program = "main"
    /\ upstream \in [Addresses -> UNION {UpstreamUsers(a) : a \in Addresses}]
    /\ \A a \in Addresses : upstream[a] \in UpstreamUsers(a)
    /\ history = [a \in Addresses |-> MissingFile]
    /\ OpIdle
    /\ SideIdle
    /\ RankIdle
    /\ DetectIdle

\* lines 333-366: the channels are made, one goroutine per address and the
\* closer are started
CmdStart ==
    /\ cmd.pc = "idle"
    /\ lastOp = "none"
    /\ \E fetchFail \in SUBSET Addresses, sendFail \in BOOLEAN :
        cmd' = [pc |-> "collect",
                in |-> [fetchFail |-> fetchFail, sendFail |-> sendFail],
                fetcher |-> [a \in Addresses |-> "started"],
                chanCap |-> Len(configAddress),
                userChan |-> <<>>, errorChan |-> <<>>,
                closer |-> "waiting", userClosed |-> FALSE, errorClosed |-> FALSE,
                users |-> <<>>, logged |-> {},
                compWorker |-> [id \in CompIDs |-> "none"],
                compCap |-> 0, compChan |-> <<>>,
                compCloser |-> "none", compClosed |-> FALSE,
                sections |-> <<>>]
    /\ UNCHANGED <<program, upstream, history, store, pass, loop, boot>>
    /\ UNCHANGED opVars

\* lines 340-358: the goroutine of one address; both channels have room for
\* every address, the send does not wait
CmdFetcher(addr) ==
    /\ cmd.pc \notin {"idle"}
    /\ cmd.fetcher[addr] = "started"
    /\ \E f \in {FetchUserData(addr, cmd.in.fetchFail)} :
        IF f.err
        THEN /\ Len(cmd.errorChan) < cmd.chanCap
             /\ cmd' = [cmd EXCEPT !.fetcher[addr] = "done",
                                   !.errorChan = Append(@, addr)]
        ELSE /\ Len(cmd.userChan) < cmd.chanCap
             /\ cmd' = [cmd EXCEPT !.fetcher[addr] = "done",
                                   !.userChan = Append(@, UserRankInfo(addr, f.user))]
    /\ UNCHANGED <<program, upstream, history, store, pass, loop, boot>>
    /\ UNCHANGED opVars

\* lines 362-364: a closer that does not wait for the goroutines
CmdCloserNotWaiting ==
    /\ cmd.pc \notin {"idle"}
    /\ cmd.closer = "waiting"
    /\ cmd' = [cmd EXCEPT !.closer = "closing", !.userClosed = TRUE]
    /\ UNCHANGED <<program, upstream, history, store, pass, loop, boot>>
    /\ UNCHANGED opVars

\* lines 362-364: wg.Wait() returns when every goroutine is done, then
\* close(userChan)
CmdCloser ==
    /\ cmd.pc \notin {"idle"}
    /\ cmd.closer = "waiting"
    /\ \A a \in Addresses : cmd.fetcher[a] = "done"
    /\ cmd' = [cmd EXCEPT !.closer = "closing", !.userClosed = TRUE]
    /\ UNCHANGED <<program, upstream, history, store, pass, loop, boot>>
    /\ UNCHANGED opVars

\* line 365: close(errorChan)
CmdCloserErrors ==
    /\ cmd.pc \notin {"idle"}
    /\ cmd.closer = "closing"
    /\ cmd' = [cmd EXCEPT !.closer = "done", !.errorClosed = TRUE]
    /\ UNCHANGED <<program, upstream, history, store, pass, loop, boot>>
    /\ UNCHANGED opVars

\* lines 370-372: the range over userChan takes a user, or ends when the
\* channel is closed and empty
CmdCollect ==
    /\ cmd.pc = "collect"
    /\ IF cmd.userChan # <<>>
       THEN cmd' = [cmd EXCEPT !.users = Append(@, Head(cmd.userChan)),
                               !.userChan = Tail(@)]
       ELSE /\ cmd.userClosed
            /\ cmd' = [cmd EXCEPT !.pc = "errors"]
    /\ UNCHANGED <<program, upstream, history, store, pass, loop, boot>>
    /\ UNCHANGED opVars

\* lines 375-377: the range over errorChan logs an error
CmdLogError ==
    /\ cmd.pc = "errors"
    /\ cmd.errorChan # <<>>
    /\ cmd' = [cmd EXCEPT !.logged = @ \cup {Head(cmd.errorChan)},
                          !.errorChan = Tail(@)]
    /\ UNCHANGED <<program, upstream, history, store, pass, loop, boot>>
    /\ UNCHANGED opVars

\* lines 380-383: no user collected, the function returns
CmdNoUsers ==
    /\ cmd.pc = "errors"
    /\ cmd.errorChan = <<>>
    /\ cmd.errorClosed
    /\ cmd.users = <<>>
    /\ cmd' = [cmd EXCEPT !.pc = "returned"]
    /\ lastOp' = "main.handleRankCommand"
    /\ opIn' = OpInputs(cmd.in.fetchFail, {}, NoFailure, cmd.in.sendFail)
    /\ opUsers' = <<>>
    /\ opChanges' = <<>>
    /\ notified' = FALSE
    /\ delivered' = FALSE
    /\ report' = NoReport
    /\ UNCHANGED <<program, upstream, history, store, pass, loop, boot>>

\* lines 386-513: the users are sorted, the overall section is written, the
\* channel of the competitions is made, one goroutine per competition id
\* and the closer are started
CmdAssemble ==
    /\ cmd.pc = "errors"
    /\ cmd.errorChan = <<>>
    /\ cmd.errorClosed
    /\ cmd.users # <<>>
    /\ \E users \in {sortByRanking(cmd.users)} :
        cmd' = [cmd EXCEPT !.pc = "competitions",
                           !.users = users,
                           !.compCap = Len(users) * Len(users[1].Competitions),
                           !.compWorker = [id \in CompIDs |->
                               IF id \in compIDsOf(users) THEN "started" ELSE "none"],
                           !.compCloser = "waiting"]
    /\ UNCHANGED <<program, upstream, history, store, pass, loop, boot>>
    /\ UNCHANGED opVars

\* lines 455-506: a goroutine whose send waits for room in the buffer only
CmdCompWorkerBufferOnly(id) ==
    /\ cmd.pc = "competitions"
    /\ cmd.compWorker[id] = "started"
    /\ Len(cmd.compChan) < cmd.compCap
    /\ cmd' = [cmd EXCEPT !.compWorker[id] = "done",
                          !.compChan = Append(@, [ID |-> id, Users |->
                              sortByRanking(compUsersOf(cmd.users, id, 1))])]
    /\ UNCHANGED <<program, upstream, history, store, pass, loop, boot>>
    /\ UNCHANGED opVars

\* lines 455-506: the goroutine of one competition.  The send goes into the
\* buffer when it has room, and straight to the main goroutine when that one
\* waits in its range over an empty channel
CmdCompWorker(id) ==
    /\ cmd.pc = "competitions"
    /\ cmd.compWorker[id] = "started"
    /\ \E comp \in {[ID |-> id, Users |-> sortByRanking(compUsersOf(cmd.users, id, 1))]} :
        IF Len(cmd.compChan) < cmd.compCap
        THEN cmd' = [cmd EXCEPT !.compWorker[id] = "done",
                                !.compChan = Append(@, comp)]
        ELSE /\ cmd.compChan = <<>>
             /\ cmd' = [cmd EXCEPT !.compWorker[id] = "done",
                                   !.sections = Append(@, comp)]
    /\ UNCHANGED <<program, upstream, history, store, pass, loop, boot>>
    /\ UNCHANGED opVars

\* lines 510-513: compWg.Wait() returns when every goroutine is done, then
\* close(compChan)
CmdCompCloser ==
    /\ cmd.pc = "competitions"
    /\ cmd.compCloser = "waiting"
    /\ \A id \in CompIDs : cmd.compWorker[id] # "started"
    /\ cmd' = [cmd EXCEPT !.compCloser = "done", !.compClosed = TRUE]
    /\ UNCHANGED <<program, upstream, history, store, pass, loop, boot>>
    /\ UNCHANGED opVars

\* lines 517-550: the range over compChan writes the section of the
\* competition it takes
CmdWriteSection ==
    /\ cmd.pc = "competitions"
    /\ cmd.compChan # <<>>
    /\ cmd' = [cmd EXCEPT !.sections = Append(@, Head(cmd.compChan)),
                          !.compChan = Tail(@)]
    /\ UNCHANGED <<program, upstream, history, store, pass, loop, boot>>
    /\ UNCHANGED opVars

\* lines 553-573: the channel is closed and empty, the report is sent
CmdSend ==
    /\ cmd.pc = "competitions"
    /\ cmd.compChan = <<>>
    /\ cmd.compClosed
    /\ cmd' = [cmd EXCEPT !.pc = "returned"]
    /\ lastOp' = "main.handleRankCommand"
    /\ opIn' = OpInputs(cmd.in.fetchFail, {}, NoFailure, cmd.in.sendFail)
    /\ opUsers' = cmd.users
    /\ opChanges' = <<>>
    /\ notified' = TRUE
    /\ delivered' = ~cmd.in.sendFail
    /\ report' = NoReport
    /\ UNCHANGED <<program, upstream, history, store, pass, loop, boot>>

\* a step of a goroutine of the command
CmdStep ==
    \/ (\E addr \in Addresses : CmdFetcher(addr))
    \/ CmdCloser
    \/ CmdCloserErrors
    \/ CmdCollect
    \/ CmdLogError
    \/ CmdNoUsers
    \/ CmdAssemble
    \/ (\E id \in CompIDs : CmdCompWorker(id))
    \/ CmdCompCloser
    \/ CmdWriteSection
    \/ CmdSend

CmdNext ==
    \/ (CmdStart /\ UNCHANGED <<rankVars, detectVars>>)
    \/ (CmdStep /\ UNCHANGED <<rankVars, detectVars>>)

\* the scheduler of Go runs every goroutine that can take a step
SpecCmd == CmdInit /\ [][CmdNext]_vars /\ WF_vars(CmdStep /\ UNCHANGED <<rankVars, detectVars>>)

\* the addresses of the collected users
CollectedAddresses == {cmd.users[i].Address : i \in 1..Len(cmd.users)}

\* C22: once the main goroutine of handleRankCommand of main.go is past the
\* collection of the users, every goroutine of an address has finished, and
\* the user list holds each address whose fetch succeeded once and no other
C22_ReportAfterEveryFetch ==
    cmd.pc \in {"errors", "competitions", "returned"}
        => /\ \A a \in Addresses : cmd.fetcher[a] = "done"
           /\ CollectedAddresses = Addresses \ cmd.in.fetchFail
           /\ Len(cmd.users) = Cardinality(Addresses \ cmd.in.fetchFail)

\* the report of a command in which one fetch failed and one succeeded has
\* been sent
C22_Witness ==
    /\ cmd.pc = "returned"
    /\ cmd.in.fetchFail = {"w2"}
    /\ delivered
    /\ CollectedAddresses = {"w1"}
    /\ cmd.logged = {"w2"}

\* C23: the sections of the competitions stand in the report of
\* handleRankCommand of main.go in ascending order of the competition id
C23_SectionsAscendById ==
    cmd.pc \in {"competitions", "returned"}
        => \A i \in 1..Len(cmd.sections) : \A j \in 1..Len(cmd.sections) :
               i < j => cmd.sections[i].ID < cmd.sections[j].ID

\* the report of a command over two competitions has been sent
C23_Witness ==
    /\ cmd.pc = "returned"
    /\ delivered
    /\ Len(cmd.sections) = 2
    /\ cmd.compCap > 0

\* the goroutines of the command are done and its channels closed and empty
CmdAllDone ==
    /\ \A a \in Addresses : cmd.fetcher[a] = "done"
    /\ cmd.closer = "done"
    /\ cmd.userClosed /\ cmd.userChan = <<>>
    /\ cmd.errorClosed /\ cmd.errorChan = <<>>
    /\ cmd.users # <<>>
           => /\ \A id \in CompIDs : cmd.compWorker[id] # "started"
              /\ cmd.compCloser = "done"
              /\ cmd.compClosed /\ cmd.compChan = <<>>
              /\ {cmd.sections[i].ID : i \in 1..Len(cmd.sections)} = compIDsOf(cmd.users)

\* C29: a started handleRankCommand of main.go returns, with every goroutine
\* it started done, its sends completed, and every channel it made closed
C29_CommandReturns ==
    (cmd.pc = "collect") ~> (cmd.pc = "returned" /\ CmdAllDone)

\* a command has returned whose channel of the competitions had no buffer,
\* and two goroutines have handed their sections over
C29_Witness ==
    /\ cmd.pc = "returned"
    /\ CmdAllDone
    /\ cmd.compCap = 0
    /\ Len(cmd.sections) = 2
    /\ cmd.in.fetchFail = {}

(***************************************************************************)
(* Properties of the snapshots and of the passes                           *)
(***************************************************************************)
\* C24: the competitions of a snapshot SaveHistory has written stand in
\* ascending order of their id, in whatever order the record had them
C24_SavedCompetitionsAscendById ==
    (/\ program = "service"
     /\ store.pc = "saved"
     /\ ~store.err)
        => LET comps == history[store.key].doc.competitions
           IN  \A i \in 1..Len(comps) : \A j \in 1..Len(comps) :
                   i < j => comps[i].id < comps[j].id

\* SaveHistory has written a record that had competition 2 before competition 1
C24_Witness ==
    /\ program = "service"
    /\ store.pc = "saved"
    /\ ~store.err
    /\ Len(store.rec.Competitions) = 2
    /\ store.rec.Competitions[1].ID > store.rec.Competitions[2].ID
    /\ history[store.key].kind = "json"

\* a pass of CheckRankChanges has notified, and every fetch, every load and
\* every write of it went through
WorthyPassWentThrough ==
    /\ lastOp = "CheckRankChanges"
    /\ notified
    /\ delivered
    /\ opIn.fetchFail = {}
    /\ opIn.topicFail = {}
    /\ opIn.writeOutcome = NoFailure
    /\ \A a \in Addresses : history[a].kind \in {"json", "missing"}

\* C25: after a pass of CheckRankChanges that notified, the pass that
\* follows on the same upstream data, its fetches, loads and writes going
\* through as well, finds nothing to notify
C25_NoRepeatedNotification ==
    WorthyPassWentThrough
        => ~hasRankChanges(checkLoop(EmptyBatch, 1, {}, {}).changes)

\* a pass has notified of a change of w2 without any failure
C25_Witness ==
    /\ WorthyPassWentThrough
    /\ "w2" \in DOMAIN opChanges
    /\ opChanges["w2"].OverallRankChanged

\* the differences a line of the alert shows when they are taken against
\* the files as they are
deltasAgainst(files, row) ==
    LET prevHistory == loadHistory(files[row.Address]).history
        user == upstream[row.Address]
    IN  IF row.ID = 0
        THEN [rankDiff |-> prevHistory.Ranking - user.Ranking,
              pointsDiff |-> user.TotalPoints - prevHistory.TotalPoints]
        ELSE LET pc == firstCompWithID(prevHistory.Competitions, row.ID, 1)
                 comp == firstCompWithID(user.Competitions, row.ID, 1)
             IN  IF pc = Nil THEN [rankDiff |-> 0, pointsDiff |-> 0]
                 ELSE [rankDiff |-> pc.Ranking - comp.Ranking,
                       pointsDiff |-> comp.Points - pc.Points]

\* C26: the differences of rank and of points the alert of checkRankChanges
\* of main.go shows for an address are those against the snapshot stored
\* before the pass began
C26_AlertDeltasAgainstStoredSnapshot ==
    [][(lastOp' = "checkRankChanges" /\ notified')
           => \A k \in 1..Len(report'.rows) :
                  [rankDiff |-> report'.rows[k].rankDiff,
                   pointsDiff |-> report'.rows[k].pointsDiff]
                      = deltasAgainst(history, report'.rows[k])]_vars

\* an alert has been sent that has a line for w2 and lines for a competition
C26_Witness ==
    /\ lastOp = "checkRankChanges"
    /\ notified
    /\ delivered
    /\ \E k \in 1..Len(report.rows) :
           report.rows[k].Address = "w2" /\ report.rows[k].ID = 0
    /\ \E k \in 1..Len(report.rows) : report.rows[k].ID # 0

(***************************************************************************)
(* Specification of the periodic pass of main.go over records with two     *)
(* competitions                                                            *)
(***************************************************************************)
\* the records the API serves in this specification: "w1" takes part in two
\* competitions whose ranks move, "w2" is as before
AlertUsers(address) ==
    IF address = "w1"
    THEN [TotalPoints : {10}, Ranking : {1},
          Competitions : {<<FetchedComp(1, r1), FetchedComp(2, r2)>> :
                              r1 \in Ranks, r2 \in Ranks}]
    ELSE UpstreamUsers(address)

\* the files the handlers of main.go leave for these records
AlertFiles(address) ==
    {MissingFile}
        \cup {JsonFile(mainMarshal(newHistory(u))) : u \in AlertUsers(address)}

AlertInit ==
    /\ program = "main"
    /\ upstream \in [Addresses -> UNION {AlertUsers(a) : a \in Addresses}]
    /\ \A a \in Addresses : upstream[a] \in AlertUsers(a)
    /\ history \in [Addresses -> UNION {AlertFiles(a) : a \in Addresses}]
    /\ \A a \in Addresses : history[a] \in AlertFiles(a)
    /\ OpIdle
    /\ SideIdle
    /\ RankIdle
    /\ DetectIdle

\* the API serves another record for an address
AlertUpstreamMoves ==
    /\ \E a \in Addresses : \E u \in AlertUsers(a) :
           /\ u # upstream[a]
           /\ upstream' = [upstream EXCEPT ![a] = u]
    /\ lastOp' = "none"
    /\ opIn' = NoInputs
    /\ opUsers' = <<>>
    /\ opChanges' = <<>>
    /\ notified' = FALSE
    /\ delivered' = FALSE
    /\ report' = NoReport
    /\ UNCHANGED <<program, history>>

AlertNext ==
    \/ (AlertUpstreamMoves /\ UNCHANGED <<rankVars, detectVars, sideVars, sysVars>>)
    \/ (MainPeriodicPass /\ UNCHANGED <<rankVars, detectVars, sideVars, sysVars>>)

SpecAlert == AlertInit /\ [][AlertNext]_vars

\* the overall rank of the record, or the rank of one of its competitions
\* against the competition of the same id, is smaller than in the snapshot
rankSmallerThan(prevHistory, user) ==
    \/ user.Ranking < prevHistory.Ranking
    \/ \E i \in 1..Len(user.Competitions), j \in 1..Len(prevHistory.Competitions) :
           /\ user.Competitions[i].ID = prevHistory.Competitions[j].ID
           /\ user.Competitions[i].Ranking < prevHistory.Competitions[j].Ranking

\* C27: the header of an alert of checkRankChanges of main.go is the one of
\* a risen rank exactly when, for one of the processed addresses, the overall
\* rank or the rank in a competition is smaller than in its previous snapshot
C27_HeaderTellsRiseExactly ==
    [][(lastOp' = "checkRankChanges" /\ notified')
           => ((report'.header = "Rank Increase Alert!")
                   <=> \E k \in 1..Len(opUsers') :
                           rankSmallerThan(
                               loadHistory(history[opUsers'[k].Address]).history,
                               upstream[opUsers'[k].Address]))]_vars

\* an alert of a fallen rank has been sent after a pass over w1
C27_Witness ==
    /\ lastOp = "checkRankChanges"
    /\ notified
    /\ delivered
    /\ report.header = "Rank Decrease Alert!"
    /\ \E k \in 1..Len(opUsers) :
           opUsers[k].Address = "w1" /\ Len(opUsers[k].Competitions) = 2

(***************************************************************************)
(* Specification of the event loop: the goroutine of main of main.go and   *)
(* TelegramService.HandleUpdates                                           *)
(***************************************************************************)
\* an update without message, a text, a /rank that replies to the configured
\* thread, a /rank that does not
UpdateKinds == {"no_message", "text", "rank_in_thread", "rank"}

\* main.go 645-657 and models.go 245-247, 256-258: the updates that reach the
\* handler of /rank
reachesRankHandler(kind) ==
    IF program = "main" THEN kind = "rank_in_thread"
    ELSE kind \in {"rank_in_thread", "rank"}

LoopInit ==
    /\ program \in {"service", "main"}
    /\ upstream \in [Addresses -> UNION {UpstreamUsers(a) : a \in Addresses}]
    /\ \A a \in Addresses : upstream[a] \in UpstreamUsers(a)
    /\ history = [a \in Addresses |-> MissingFile]
    /\ OpIdle
    /\ SideIdle
    /\ RankIdle
    /\ DetectIdle

\* the loop is entered: no update waits, the ticker has not fired
LoopStart ==
    /\ loop.pc = "idle"
    /\ loop' = [pc |-> "select", updates |-> <<>>, tick |-> FALSE,
                running |-> [rank |-> 0, check |-> 0]]
    /\ UNCHANGED <<program, upstream, history, store, pass, cmd, boot>>
    /\ UNCHANGED opVars

\* Telegram delivers an update, whatever the loop is doing
UpdateArrives ==
    /\ loop.pc # "idle"
    /\ Len(loop.updates) < MaxPending
    /\ \E kind \in UpdateKinds :
           loop' = [loop EXCEPT !.updates = Append(@, kind)]
    /\ UNCHANGED <<program, upstream, history, store, pass, cmd, boot>>
    /\ UNCHANGED opVars

\* the ticker fires: its channel holds one tick, a tick that finds it full is
\* dropped
TickFires ==
    /\ loop.pc # "idle"
    /\ ~loop.tick
    /\ loop' = [loop EXCEPT !.tick = TRUE]
    /\ UNCHANGED <<program, upstream, history, store, pass, cmd, boot>>
    /\ UNCHANGED opVars

\* case update := <-updates: the handler of /rank is called in the goroutine
\* of the loop
LoopTakesUpdate ==
    /\ loop.pc = "select"
    /\ loop.updates # <<>>
    /\ loop' = IF reachesRankHandler(Head(loop.updates))
               THEN [loop EXCEPT !.updates = Tail(@), !.pc = "rank",
                                 !.running.rank = @ + 1]
               ELSE [loop EXCEPT !.updates = Tail(@)]
    /\ UNCHANGED <<program, upstream, history, store, pass, cmd, boot>>
    /\ UNCHANGED opVars

\* case <-ticker.C with the check started in a goroutine of its own
LoopTakesTickInGoroutine ==
    /\ loop.pc = "select"
    /\ loop.tick
    /\ loop' = [loop EXCEPT !.tick = FALSE, !.running.check = @ + 1]
    /\ UNCHANGED <<program, upstream, history, store, pass, cmd, boot>>
    /\ UNCHANGED opVars

\* case <-ticker.C: the check is called in the goroutine of the loop
LoopTakesTick ==
    /\ loop.pc = "select"
    /\ loop.tick
    /\ loop' = [loop EXCEPT !.tick = FALSE, !.pc = "check", !.running.check = @ + 1]
    /\ UNCHANGED <<program, upstream, history, store, pass, cmd, boot>>
    /\ UNCHANGED opVars

\* the handler returns (the goroutines handleRankCommand of main.go starts
\* are done by then), the loop is at its select again
HandlerReturns ==
    /\ loop.pc \in {"rank", "check"}
    /\ loop' = [loop EXCEPT !.pc = "select", !.running[loop.pc] = @ - 1]
    /\ UNCHANGED <<program, upstream, history, store, pass, cmd, boot>>
    /\ UNCHANGED opVars

LoopNext ==
    \/ (LoopStart /\ UNCHANGED <<rankVars, detectVars>>)
    \/ (UpdateArrives /\ UNCHANGED <<rankVars, detectVars>>)
    \/ (TickFires /\ UNCHANGED <<rankVars, detectVars>>)
    \/ (LoopTakesUpdate /\ UNCHANGED <<rankVars, detectVars>>)
    \/ (LoopTakesTick /\ UNCHANGED <<rankVars, detectVars>>)
    \/ (HandlerReturns /\ UNCHANGED <<rankVars, detectVars>>)

SpecLoop == LoopInit /\ [][LoopNext]_vars

\* C28: in the event loop of main.go and in TelegramService.HandleUpdates at
\* most one handler runs at a time: never a handler of /rank together with a
\* periodic check, nor two of a kind
C28_HandlersSerialized ==
    loop.pc # "idle"
        => /\ loop.running.rank + loop.running.check <= 1
           /\ (loop.running.rank = 1) <=> (loop.pc = "rank")
           /\ (loop.running.check = 1) <=> (loop.pc = "check")

\* a check runs while a /rank that reaches the handler and a tick wait
C28_Witness ==
    /\ loop.pc = "check"
    /\ loop.running.check = 1
    /\ loop.updates # <<>>
    /\ reachesRankHandler(Head(loop.updates))
    /\ loop.tick

(***************************************************************************)
(* Specification of the bot initialization: InitBot of the service, initBot *)
(* of main.go and of the earlier program                                   *)
(***************************************************************************)
\* what one attempt can meet: the bot is made and answers, the bot cannot be
\* made, the bot is made and GetMe fails (asked by initBot of main.go only)
AttemptOutcomes ==
    IF program = "main" THEN {"ok", "new_fails", "getme_fails"}
    ELSE {"ok", "new_fails"}

\* a *tgbotapi.BotAPI that is not nil
BotAPI == [nil |-> FALSE]

BootInit ==
    /\ program \in {"service", "main", "unnamed"}
    /\ upstream \in [Addresses -> UNION {UpstreamUsers(a) : a \in Addresses}]
    /\ \A a \in Addresses : upstream[a] \in UpstreamUsers(a)
    /\ history = [a \in Addresses |-> MissingFile]
    /\ OpIdle
    /\ SideIdle
    /\ RankIdle
    /\ DetectIdle

\* the call: bot and err are nil, i is 0
BootStart ==
    /\ boot.pc = "idle"
    /\ \E maxRetries \in 0..MaxRetries :
           boot' = [pc |-> "loop", maxRetries |-> maxRetries, i |-> 0,
                    tried |-> <<>>, bot |-> Nil, err |-> FALSE]
    /\ UNCHANGED <<program, upstream, history, store, pass, cmd, loop>>
    /\ UNCHANGED opVars

\* a loop that runs while i <= maxRetries
BootAttemptOneMore ==
    /\ boot.pc = "loop"
    /\ boot.i <= boot.maxRetries
    /\ \E outcome \in AttemptOutcomes :
           boot' = IF outcome = "ok"
                   THEN [boot EXCEPT !.pc = "returned", !.tried = Append(@, outcome),
                                     !.bot = BotAPI, !.err = FALSE]
                   ELSE [boot EXCEPT !.i = @ + 1, !.tried = Append(@, outcome),
                                     !.bot = IF outcome = "getme_fails" THEN BotAPI ELSE Nil,
                                     !.err = (outcome = "new_fails")]
    /\ UNCHANGED <<program, upstream, history, store, pass, cmd, loop>>
    /\ UNCHANGED opVars

\* one turn of the loop: the bot is made (and, in main.go, asked with GetMe);
\* on success the function returns, otherwise it logs, sleeps and counts.
\* The err of GetMe is a variable of its own (main.go 603)
BootAttempt ==
    /\ boot.pc = "loop"
    /\ boot.i < boot.maxRetries
    /\ \E outcome \in AttemptOutcomes :
           boot' = IF outcome = "ok"
                   THEN [boot EXCEPT !.pc = "returned", !.tried = Append(@, outcome),
                                     !.bot = BotAPI, !.err = FALSE]
                   ELSE [boot EXCEPT !.i = @ + 1, !.tried = Append(@, outcome),
                                     !.bot = IF outcome = "getme_fails" THEN BotAPI ELSE Nil,
                                     !.err = (outcome = "new_fails")]
    /\ UNCHANGED <<program, upstream, history, store, pass, cmd, loop>>
    /\ UNCHANGED opVars

\* the loop is over: return nil, fmt.Errorf(...)
BootGivesUp ==
    /\ boot.pc = "loop"
    /\ boot.i >= boot.maxRetries
    /\ boot' = [boot EXCEPT !.pc = "returned", !.bot = Nil, !.err = TRUE]
    /\ UNCHANGED <<program, upstream, history, store, pass, cmd, loop>>
    /\ UNCHANGED opVars

BootNext ==
    \/ (BootStart /\ UNCHANGED <<rankVars, detectVars>>)
    \/ (BootAttempt /\ UNCHANGED <<rankVars, detectVars>>)
    \/ (BootGivesUp /\ UNCHANGED <<rankVars, detectVars>>)

SpecBoot == BootInit /\ [][BootNext]_vars

\* every attempt made so far has failed
AllAttemptsFailed == \A k \in 1..Len(boot.tried) : boot.tried[k] # "ok"

\* C30: the bot initialization called with the limit n makes at most n
\* attempts and none after a successful one; it returns no bot and an error
\* exactly when n attempts were made and all failed, a bot and no error
\* otherwise, and never no bot and no error
C30_InitRetriesWithinLimit ==
    boot.pc # "idle"
        => /\ Len(boot.tried) <= boot.maxRetries
           /\ \A k \in 1..Len(boot.tried) :
                  boot.tried[k] = "ok" => (k = Len(boot.tried) /\ boot.pc = "returned")
           /\ boot.pc = "returned"
                  => /\ (boot.bot = Nil /\ boot.err)
                            <=> (Len(boot.tried) = boot.maxRetries /\ AllAttemptsFailed)
                     /\ (boot.bot # Nil /\ ~boot.err) <=> ~AllAttemptsFailed
                     /\ ~(boot.bot = Nil /\ ~boot.err)

\* initBot of main.go has returned the bot of its third attempt, after an
\* attempt in which the bot could not be made and one in which GetMe failed
C30_Witness ==
    /\ program = "main"
    /\ boot.pc = "returned"
    /\ boot.maxRetries = 3
    /\ boot.tried = <<"new_fails", "getme_fails", "ok">>
    /\ boot.bot # Nil
    /\ ~boot.err

====
